---- MODULE Spec2Model ----
(***************************************************************************)
(* The circuit writer of noname (src/circuit_writer/writer.rs): wire       *)
(* allocation, gate emission, wiring, constant memoization, public and     *)
(* private inputs, and the statement / expression compiler that drives     *)
(* them.                                                                    *)
(*                                                                         *)
(* Conventions.  Option<T> is a sequence: None is <<>> and Some(x) is      *)
(* <<x>>.  Spans are dropped everywhere except on statements, where the    *)
(* span identifies the statement.  A panic (assert!, unwrap, expect,       *)
(* panic!, todo!) aborts the process: it sets the `panic` flag and every   *)
(* later step of the same call chain is skipped.                           *)
(***************************************************************************)
EXTENDS Integers, Sequences, FiniteSets, TLC

(***************************************************************************)
(* Bounds of the model.                                                     *)
(***************************************************************************)
\* field elements are 0..MaxField, arithmetic is modulo MaxField + 1
MaxField == 4
\* called on its own, no operation of the writer allocates a wire beyond this many
MaxWires == 2
\* called on its own, no operation of the writer emits a row beyond this many
MaxGates == 2
\* largest count given to add_public_inputs / add_private_inputs / add_public_outputs
MaxNum == MaxWires
\* the machine word (usize) holds 0..UsizeMax; the field is wider
UsizeMax == 3

(***************************************************************************)
(* Program constants.                                                       *)
(***************************************************************************)
NUM_REGISTERS == 15
GENERIC_COEFFS == 5
GENERIC_REGISTERS == 3

None == <<>>
Some(x) == <<x>>

\* the field elements are 0..MaxField
FieldZero == 0
FieldOne == 1
\* Field::neg
Neg(v) == ((MaxField + 1) - v) % (MaxField + 1)

\* the names of the public and of the private inputs
PublicNames == {"x"}
PrivateNames == {"y"}

(***************************************************************************)
(* Data structures.                                                         *)
(***************************************************************************)
\* enum Value
ValueConstant(c) == [tag |-> "Constant", c |-> c]
ValueMul(lhs, rhs) == [tag |-> "Mul", lhs |-> lhs, rhs |-> rhs]
ValueExternal(name, idx) == [tag |-> "External", name |-> name, idx |-> idx]
ValuePublicOutput(opt) == [tag |-> "PublicOutput", wire |-> opt]
\* Value::Hint, the closure told by the operation and its operands
ValueHint(op, lhs, rhs) == [tag |-> "Hint", op |-> op, lhs |-> lhs, rhs |-> rhs]

\* enum ConstOrCell
Const(c) == [tag |-> "Const", v |-> c]
Cell(i) == [tag |-> "Cell", v |-> i]

\* struct Cell { row, col }
GridCell(row, col) == [row |-> row, col |-> col]

\* enum Wiring; the span of each cell is dropped
NotWired(cell) == [tag |-> "NotWired", cells |-> <<cell>>]
Wired(cells) == [tag |-> "Wired", cells |-> cells]

\* struct Gate { typ, coeffs, span, note }
Gate(typ, coeffs, note) == [typ |-> typ, coeffs |-> coeffs, note |-> note]

\* struct PendingGate { label, coeffs, vars, span }
PendingGate(label, coeffs, vars) == [label |-> label, coeffs |-> coeffs, vars |-> vars]

\* a map that holds no key
EmptyMap == [k \in {} |-> k]

\* HashMap::insert: the new value replaces an old one
Insert(map, k, v) == (k :> v) @@ map

\* iter::repeat(x).take(n)
Repeat(x, n) == [i \in 1..n |-> x]

(***************************************************************************)
(* The writer.  State after CircuitWriter::new: every collection empty,    *)
(* the coalescing optimization off.                                         *)
(***************************************************************************)
NewWriter ==
    [ next_variable |-> 0,
      witness_vars |-> <<>>,
      gates |-> <<>>,
      rows_of_vars |-> <<>>,
      wiring |-> <<>>,
      cached_constants |-> <<>>,
      public_input_size |-> 0,
      public_output |-> None,
      private_input_indices |-> <<>>,
      pending_generic_gate |-> None,
      double_generic_gate_optimization |-> FALSE,
      finalized |-> FALSE,
      constants |-> EmptyMap,
      generic_requests |-> 0,
      panic |-> FALSE ]

Panic(w) == [w EXCEPT !.panic = TRUE]

\* compiled_gates without the test of finalized
compiled_gates_unguarded(w) ==
    IF w.panic THEN [w |-> w, ret |-> None]
    ELSE [w |-> w, ret |-> Some(w.gates)]

\* compiled_gates: the gates of a finalized writer, a panic otherwise
compiled_gates(w) ==
    IF w.panic THEN [w |-> w, ret |-> None]
    ELSE IF ~w.finalized THEN [w |-> Panic(w), ret |-> None]
    ELSE [w |-> w, ret |-> Some(w.gates)]

\* new_internal_var leaving a gap after the wire it allocates
new_internal_var_gap(w, val) ==
    IF w.panic THEN [w |-> w, ret |-> 0]
    ELSE LET var == w.next_variable
         IN  [ w |-> [w EXCEPT !.next_variable = @ + 2,
                               !.witness_vars = Insert(@, var, val)],
               ret |-> var ]

\* new_internal_var: the fresh wire is next_variable, bound to val
new_internal_var(w, val) ==
    IF w.panic THEN [w |-> w, ret |-> 0]
    ELSE LET var == w.next_variable
         IN  [ w |-> [w EXCEPT !.next_variable = @ + 1,
                               !.witness_vars = Insert(@, var, val)],
               ret |-> var ]

\* the wiring loop of add_gate, over the columns i..Len(vars) (col = i - 1)
RECURSIVE wire_vars(_, _, _, _)
wire_vars(wiring, vars, row, i) ==
    IF i > Len(vars) THEN wiring
    ELSE IF vars[i] = None THEN wire_vars(wiring, vars, row, i + 1)
    ELSE LET var == vars[i][1]
             curr_cell == GridCell(row, i - 1)
             entry == IF var \in DOMAIN wiring
                        THEN IF wiring[var].tag = "NotWired"
                               THEN Wired(<<wiring[var].cells[1], curr_cell>>)
                               ELSE Wired(Append(wiring[var].cells, curr_cell))
                        ELSE NotWired(curr_cell)
         IN  wire_vars(Insert(wiring, var, entry), vars, row, i + 1)

\* add_gate without its two assertions
add_gate_unchecked(w, note, typ, vars, coeffs) ==
    IF w.panic THEN w
    ELSE LET row == Len(w.gates)
         IN  [w EXCEPT !.rows_of_vars = Append(@, vars),
                       !.gates = Append(@, Gate(typ, coeffs, note)),
                       !.wiring = wire_vars(@, vars, row, 1)]

\* add_gate with the current row read after the gate is pushed
add_gate_row_after_push(w, note, typ, vars, coeffs) ==
    IF w.panic THEN w
    ELSE IF Len(coeffs) > NUM_REGISTERS \/ Len(vars) > NUM_REGISTERS THEN Panic(w)
    ELSE LET row == Len(w.gates) + 1
         IN  [w EXCEPT !.rows_of_vars = Append(@, vars),
                       !.gates = Append(@, Gate(typ, coeffs, note)),
                       !.wiring = wire_vars(@, vars, row, 1)]

\* add_gate: one row, then the wiring of its non-empty slots
add_gate(w, note, typ, vars, coeffs) ==
    IF w.panic THEN w
    ELSE IF Len(coeffs) > NUM_REGISTERS \/ Len(vars) > NUM_REGISTERS THEN Panic(w)
    ELSE LET row == Len(w.gates)
         IN  [w EXCEPT !.rows_of_vars = Append(@, vars),
                       !.gates = Append(@, Gate(typ, coeffs, note)),
                       !.wiring = wire_vars(@, vars, row, 1)]

\* add_generic_gate without the padding of the coefficients and of the slots
add_generic_gate_unpadded(w, label, vars, coeffs) ==
    IF w.panic THEN w
    ELSE IF Len(coeffs) > GENERIC_COEFFS \/ Len(vars) > GENERIC_REGISTERS THEN Panic(w)
    ELSE LET w1 == [w EXCEPT !.generic_requests = @ + 1]
         IN  IF ~w.double_generic_gate_optimization
               THEN add_gate(w1, label, "DoubleGeneric", vars, coeffs)
             ELSE IF w.pending_generic_gate # None
               THEN LET generic_gate == w.pending_generic_gate[1]
                    IN  add_gate([w1 EXCEPT !.pending_generic_gate = None],
                                 label, "DoubleGeneric",
                                 vars \o generic_gate.vars,
                                 coeffs \o generic_gate.coeffs)
             ELSE [w1 EXCEPT !.pending_generic_gate =
                                 Some(PendingGate(label, coeffs, vars))]

\* add_generic_gate that leaves the pending request in its slot when it
\* emits the merged row
add_generic_gate_pending_kept(w, label, vars, coeffs) ==
    IF w.panic THEN w
    ELSE IF Len(coeffs) > GENERIC_COEFFS \/ Len(vars) > GENERIC_REGISTERS THEN Panic(w)
    ELSE LET pcoeffs == coeffs \o Repeat(FieldZero, GENERIC_COEFFS - Len(coeffs))
             pvars == vars \o Repeat(None, GENERIC_REGISTERS - Len(vars))
             w1 == [w EXCEPT !.generic_requests = @ + 1]
         IN  IF ~w.double_generic_gate_optimization
               THEN add_gate(w1, label, "DoubleGeneric", pvars, pcoeffs)
             ELSE IF w.pending_generic_gate # None
               THEN LET generic_gate == w.pending_generic_gate[1]
                    IN  add_gate(w1, label, "DoubleGeneric",
                                 pvars \o generic_gate.vars,
                                 pcoeffs \o generic_gate.coeffs)
             ELSE [w1 EXCEPT !.pending_generic_gate =
                                 Some(PendingGate(label, pcoeffs, pvars))]

\* add_generic_gate: pad, then emit or coalesce with the pending request; the
\* requests that passed the padding are counted in generic_requests
add_generic_gate(w, label, vars, coeffs) ==
    IF w.panic THEN w
    ELSE IF Len(coeffs) > GENERIC_COEFFS \/ Len(vars) > GENERIC_REGISTERS THEN Panic(w)
    ELSE LET pcoeffs == coeffs \o Repeat(FieldZero, GENERIC_COEFFS - Len(coeffs))
             pvars == vars \o Repeat(None, GENERIC_REGISTERS - Len(vars))
             w1 == [w EXCEPT !.generic_requests = @ + 1]
         IN  IF ~w.double_generic_gate_optimization
               THEN add_gate(w1, label, "DoubleGeneric", pvars, pcoeffs)
             ELSE IF w.pending_generic_gate # None
               THEN LET generic_gate == w.pending_generic_gate[1]
                    IN  add_gate([w1 EXCEPT !.pending_generic_gate = None],
                                 label, "DoubleGeneric",
                                 pvars \o generic_gate.vars,
                                 pcoeffs \o generic_gate.coeffs)
             ELSE [w1 EXCEPT !.pending_generic_gate =
                                 Some(PendingGate(label, pcoeffs, pvars))]

\* label.unwrap_or("hardcode a constant")
ConstantLabel(label) == IF label = None THEN "hardcode a constant" ELSE label[1]

\* add_constant without the cache lookup
add_constant_uncached(w, label, value) ==
    IF w.panic THEN [w |-> w, ret |-> 0]
    ELSE LET nv == new_internal_var(w, ValueConstant(value))
             var == nv.ret
             w1 == [nv.w EXCEPT !.cached_constants = Insert(@, value, var)]
         IN  [ w |-> add_generic_gate(w1, ConstantLabel(label), <<Some(var)>>,
                         <<FieldOne, FieldZero, FieldZero, FieldZero, Neg(value)>>),
               ret |-> var ]

\* add_constant: the memoized wire of value, or a fresh wire and its gate
add_constant(w, label, value) ==
    IF w.panic THEN [w |-> w, ret |-> 0]
    ELSE IF value \in DOMAIN w.cached_constants
      THEN [w |-> w, ret |-> w.cached_constants[value]]
    ELSE LET nv == new_internal_var(w, ValueConstant(value))
             var == nv.ret
             w1 == [nv.w EXCEPT !.cached_constants = Insert(@, value, var)]
         IN  [ w |-> add_generic_gate(w1, ConstantLabel(label), <<Some(var)>>,
                         <<FieldOne, FieldZero, FieldZero, FieldZero, Neg(value)>>),
               ret |-> var ]

\* the loop of add_public_inputs, from idx on; cvars is the Var built so far
RECURSIVE public_inputs_loop(_, _, _, _, _)
public_inputs_loop(w, name, num, idx, cvars) ==
    IF idx >= num THEN [w |-> w, ret |-> cvars]
    ELSE LET nv == new_internal_var(w, ValueExternal(name, idx))
             w1 == add_gate(nv.w, "add public input", "DoubleGeneric",
                            <<Some(nv.ret)>>, <<FieldOne>>)
         IN  public_inputs_loop(w1, name, num, idx + 1, Append(cvars, Cell(nv.ret)))

\* add_public_inputs counting one public input whatever num is
add_public_inputs_counts_one(w, name, num) ==
    LET r == public_inputs_loop(w, name, num, 0, <<>>)
    IN  IF r.w.panic THEN r
        ELSE [r EXCEPT !.w.public_input_size = @ + 1]

add_public_inputs(w, name, num) ==
    LET r == public_inputs_loop(w, name, num, 0, <<>>)
    IN  IF r.w.panic THEN r
        ELSE [r EXCEPT !.w.public_input_size = @ + num]

\* the loop of add_public_outputs
RECURSIVE public_outputs_loop(_, _, _, _)
public_outputs_loop(w, num, k, cvars) ==
    IF k >= num THEN [w |-> w, ret |-> cvars]
    ELSE LET nv == new_internal_var(w, ValuePublicOutput(None))
             w1 == add_generic_gate(nv.w, "add public output",
                                    <<Some(nv.ret)>>, <<FieldOne>>)
         IN  public_outputs_loop(w1, num, k + 1, Append(cvars, Cell(nv.ret)))

\* add_public_outputs that leaves public_input_size as it is
add_public_outputs_uncounted(w, num) ==
    IF w.panic THEN w
    ELSE IF w.public_output # None THEN Panic(w)
    ELSE LET r == public_outputs_loop(w, num, 0, <<>>)
         IN  IF r.w.panic THEN r.w
             ELSE [r.w EXCEPT !.public_output = Some(r.ret)]

\* add_public_outputs without its assertion
add_public_outputs_unchecked(w, num) ==
    IF w.panic THEN w
    ELSE LET r == public_outputs_loop(w, num, 0, <<>>)
         IN  IF r.w.panic THEN r.w
             ELSE [r.w EXCEPT !.public_input_size = @ + num,
                              !.public_output = Some(r.ret)]

add_public_outputs(w, num) ==
    IF w.panic THEN w
    ELSE IF w.public_output # None THEN Panic(w)
    ELSE LET r == public_outputs_loop(w, num, 0, <<>>)
         IN  IF r.w.panic THEN r.w
             ELSE [r.w EXCEPT !.public_input_size = @ + num,
                              !.public_output = Some(r.ret)]

\* the loop of add_private_inputs
RECURSIVE private_inputs_loop(_, _, _, _, _)
private_inputs_loop(w, name, num, idx, cvars) ==
    IF idx >= num THEN [w |-> w, ret |-> cvars]
    ELSE LET nv == new_internal_var(w, ValueExternal(name, idx))
             w1 == [nv.w EXCEPT !.private_input_indices = Append(@, nv.ret)]
         IN  private_inputs_loop(w1, name, num, idx + 1, Append(cvars, Cell(nv.ret)))

\* add_private_inputs giving each input a gate, as add_public_inputs does
add_private_inputs_gated(w, name, num) == public_inputs_loop(w, name, num, 0, <<>>)

add_private_inputs(w, name, num) == private_inputs_loop(w, name, num, 0, <<>>)

(***************************************************************************)
(* The type checker's answers, read by the writer as an oracle: the type    *)
(* of each expression (carried by the expression as `typ`), the fields of   *)
(* each struct, the functions, and the size of a type in field elements.    *)
(***************************************************************************)
\* enum TyKind
TyField == [k |-> "Field"]
TyBool == [k |-> "Bool"]
TyArray(elem, len) == [k |-> "Array", elem |-> elem, len |-> len]
TyCustom(name) == [k |-> "Custom", name |-> name]

\* a declared field of a struct
FieldDecl(name, typ) == [name |-> name, typ |-> typ]

\* StructInfo.fields of the structs the programs declare
Structs ==
    [ Thing |-> <<FieldDecl("f1", TyField), FieldDecl("f2", TyArray(TyField, 2))>>,
      Pair |-> <<FieldDecl("a", TyCustom("Thing")), FieldDecl("b", TyField)>> ]

\* syntax::is_type: a name that starts with an upper-case letter
is_type(name) == name \in {"Thing", "Pair"}

\* TypeChecker::size_of: the number of field elements of a value of the type
RECURSIVE size_of(_), size_of_fields(_, _)
size_of(typ) ==
    CASE typ.k = "Field" -> 1
      [] typ.k = "Bool" -> 1
      [] typ.k = "Array" -> typ.len * size_of(typ.elem)
      [] typ.k = "Custom" -> size_of_fields(Structs[typ.name], 1)
size_of_fields(fields, i) ==
    IF i > Len(fields) THEN 0
    ELSE size_of(fields[i].typ) + size_of_fields(fields, i + 1)

(***************************************************************************)
(* Var, VarOrRef, VarInfo and FnEnv.  A Var is the sequence of its cvars.   *)
(* A FnEnv is a stack of frames, each a map from names to VarInfo; the      *)
(* first frame holds the named constants and the parameters.                *)
(***************************************************************************)
\* Var::new_constant
new_constant(c) == <<Const(c)>>

\* VarInfo::new
VarInfo(var, mutable, typ) == [var |-> var, mutable |-> mutable, typ |-> typ]

\* enum VarOrRef
VVar(cvars) == [tag |-> "Var", cvars |-> cvars, var_name |-> "", start |-> 0, len |-> 0]
VRef(var_name, start, len) ==
    [tag |-> "Ref", cvars |-> <<>>, var_name |-> var_name, start |-> start, len |-> len]

\* FnEnv::new, nest, pop
FnEnv_new(cst) == <<cst>>
nest(env) == Append(env, EmptyMap)
pop(env) == SubSeq(env, 1, Len(env) - 1)

\* whether name is bound in some frame of the stack
is_bound(env, name) == \E i \in 1..Len(env) : name \in DOMAIN env[i]

\* FnEnv::get_var, for a name that is bound
get_var(env, name) ==
    LET i == CHOOSE j \in 1..Len(env) : name \in DOMAIN env[j]
    IN  env[i][name]

\* Var::range(start, len): the slice cvars[start .. start + len]
range(cvars, start, len) == SubSeq(cvars, start + 1, start + len)

\* VarOrRef::len
vlen(vr) == IF vr.tag = "Var" THEN Len(vr.cvars) ELSE vr.len

\* VarOrRef::constant: the value of a concrete Var made of one constant
constant(vr) ==
    IF vr.tag = "Var" /\ Len(vr.cvars) = 1 /\ vr.cvars[1].tag = "Const"
    THEN Some(vr.cvars[1].v)
    ELSE None

\* VarOrRef::from_var_info: a mutable variable is referred to, not copied
from_var_info(name, var_info) ==
    IF var_info.mutable THEN VRef(name, 0, Len(var_info.var))
    ELSE VVar(var_info.var)

(***************************************************************************)
(* The compiler's state while it walks the program: the writer, the         *)
(* current FnEnv, the error returned (kind "ok" while there is none),       *)
(* whether the build checks integer overflow, and the history of the        *)
(* statements entered and left.                                             *)
(***************************************************************************)
\* Error::new(kind(a, b), span)
Err(kind, a, b) == [kind |-> kind, a |-> a, b |-> b]
NoErr == Err("ok", 0, 0)

CompilerState(w, env, checked) ==
    [w |-> w, env |-> env, err |-> NoErr, checked |-> checked, trace |-> <<>>]

Failed(s) == s.w.panic \/ s.err.kind # "ok"
Fail(s, err) == [s EXCEPT !.err = err]
PanicS(s) == [s EXCEPT !.w = Panic(@)]

\* a result: the state and the value returned
R(s, res) == [s |-> s, res |-> res]

\* one entry of the history: a statement entered or left, or a function
\* called, with the FnEnv at that point
Event(what, phase, env) == [what |-> what, phase |-> phase, env |-> env]
Log(s, what, phase) == [s EXCEPT !.trace = Append(@, Event(what, phase, s.env))]

\* FnEnv::add_var: no name is bound twice in the active stack
add_var(s, name, var_info) ==
    IF Failed(s) THEN s
    ELSE IF is_bound(s.env, name) THEN PanicS(s)
    ELSE [s EXCEPT !.env[Len(s.env)] = Insert(@, name, var_info)]

\* VarOrRef::value: the concrete Var; the result holds it as `res`
VarOrRef_value(s, vr) ==
    IF Failed(s) THEN R(s, <<>>)
    ELSE IF vr.tag = "Var" THEN R(s, vr.cvars)
    ELSE IF ~is_bound(s.env, vr.var_name) THEN R(PanicS(s), <<>>)
    ELSE LET cvars == get_var(s.env, vr.var_name).var
         IN  IF vr.start + vr.len > Len(cvars) THEN R(PanicS(s), <<>>)
             ELSE R(s, range(cvars, vr.start, vr.len))

\* FnEnv::reassign_var_range: the cells start .. start + len of the Var stored
\* for var_name become the cells of var; the binding must be mutable
reassign_var_range(s, var_name, var, start, len) ==
    IF Failed(s) THEN s
    ELSE IF ~is_bound(s.env, var_name) THEN PanicS(s)
    ELSE LET i == CHOOSE j \in 1..Len(s.env) : var_name \in DOMAIN s.env[j]
             stored == s.env[i][var_name]
         IN  IF ~stored.mutable \/ Len(var) # len \/ start + len > Len(stored.var)
               THEN PanicS(s)
             ELSE [s EXCEPT !.env[i][var_name].var =
                       SubSeq(stored.var, 1, start) \o var
                           \o SubSeq(stored.var, start + len + 1, Len(stored.var))]

\* VarOrRef::narrow: the sub-range start, len of the Var or of the reference
narrow(s, vr, start, len) ==
    IF Failed(s) THEN R(s, None)
    ELSE IF vr.tag = "Var"
      THEN IF start + len > Len(vr.cvars) THEN R(PanicS(s), None)
           ELSE R(s, Some(VVar(range(vr.cvars, start, len))))
    ELSE R(s, Some(VRef(vr.var_name, vr.start + start, len)))

\* CircuitWriter::add_constant_var
add_constant_var(w, name, cst) ==
    IF w.panic THEN w
    ELSE IF name \in DOMAIN w.constants THEN Panic(w)
    ELSE [w EXCEPT !.constants =
                      Insert(@, name, VarInfo(new_constant(cst), FALSE, Some(TyField)))]

(***************************************************************************)
(* The syntax tree.                                                         *)
(***************************************************************************)
\* ExprKind; typ is TypeChecker::expr_type of the expression
BigInt(n) == [kind |-> "BigInt", value |-> n, typ |-> Some(TyField)]
Bool(b) == [kind |-> "Bool", value |-> b, typ |-> Some(TyBool)]
Variable(name, typ) == [kind |-> "Variable", name |-> name, typ |-> typ]
ArrayAccess(array, idx, typ) ==
    [kind |-> "ArrayAccess", array |-> array, idx |-> idx, typ |-> typ]
FieldAccess(lhs, rhs, typ) ==
    [kind |-> "FieldAccess", lhs |-> lhs, rhs |-> rhs, typ |-> typ]
ArrayDeclaration(items, typ) ==
    [kind |-> "ArrayDeclaration", items |-> items, typ |-> typ]
CustomTypeDeclaration(struct_name, fields) ==
    [kind |-> "CustomTypeDeclaration", struct_name |-> struct_name,
     items |-> fields, typ |-> Some(TyCustom(struct_name))]
Assignment(lhs, rhs) == [kind |-> "Assignment", lhs |-> lhs, rhs |-> rhs, typ |-> None]
BinaryOp(op, lhs, rhs, typ) ==
    [kind |-> "BinaryOp", op |-> op, lhs |-> lhs, rhs |-> rhs, typ |-> typ]
IfElse(cond, then_, else_, typ) ==
    [kind |-> "IfElse", cond |-> cond, then_ |-> then_, else_ |-> else_, typ |-> typ]
Not(b) == [kind |-> "Not", b |-> b, typ |-> Some(TyBool)]
Negated(b) == [kind |-> "Negated", b |-> b, typ |-> Some(TyField)]
MethodCall(lhs, method_name, args, typ) ==
    [kind |-> "MethodCall", lhs |-> lhs, method_name |-> method_name, args |-> args,
     typ |-> typ]
FnCall(module, fn_name, args, typ) ==
    [kind |-> "FnCall", module |-> module, fn_name |-> fn_name, args |-> args,
     typ |-> typ]

\* StmtKind; span identifies the statement
Assign(span, mutable, lhs, rhs) ==
    [kind |-> "Assign", span |-> span, mutable |-> mutable, lhs |-> lhs, rhs |-> rhs]
ForLoop(span, var, start, end, body) ==
    [kind |-> "ForLoop", span |-> span, var |-> var,
     range |-> [start |-> start, end |-> end], body |-> body]
ExprStmt(span, expr) == [kind |-> "Expr", span |-> span, expr |-> expr]
Return(span, expr) == [kind |-> "Return", span |-> span, expr |-> expr]
Comment(span) == [kind |-> "Comment", span |-> span]

\* FnArg, FnSig, Function
FnArg(name, public, typ) == [name |-> name, public |-> public, typ |-> typ]
Function(name, arguments, return_type, body) ==
    [name |-> name, sig |-> [arguments |-> arguments, return_type |-> return_type],
     body |-> body]
is_main(function) == function.name = "main"

\* enum FnKind
BuiltIn == [kind |-> "BuiltIn"]
Native(function) == [kind |-> "Native", function |-> function]
Main == [kind |-> "Main"]

\* TypeChecker.functions: the built-in that constrains its two arguments to be
\* equal, the native functions of the programs, and main
Functions ==
    [ assert_eq |-> BuiltIn,
      id |-> Native(Function("id", <<FnArg("a", FALSE, TyField)>>, Some(TyField),
                <<Return(91, Variable("a", Some(TyField)))>>)),
      local |-> Native(Function("local", <<FnArg("a", FALSE, TyField)>>, Some(TyField),
                <<Assign(92, FALSE, "b", Variable("a", Some(TyField))),
                  Return(93, Variable("b", Some(TyField)))>>)),
      withk |-> Native(Function("withk", <<FnArg("K", FALSE, TyField)>>, None,
                <<Comment(94)>>)),
      main |-> Main ]

\* StructInfo.methods of the structs the programs declare: get(self),
\* set(self, a), make(a) and none() of Thing
ArgSelf == FnArg("self", FALSE, TyCustom("Thing"))
ArgA == FnArg("a", FALSE, TyField)
Methods ==
    [ Thing |-> [ get |-> Function("get", <<ArgSelf>>, None, <<Comment(95)>>),
                  set |-> Function("set", <<ArgSelf, ArgA>>, None, <<Comment(96)>>),
                  make |-> Function("make", <<ArgA>>, None, <<Comment(97)>>),
                  none |-> Function("none", <<>>, None, <<Comment(98)>>) ],
      Pair |-> EmptyMap ]

\* TypeChecker.modules with the functions Dependencies::get_fn finds in each
Modules ==
    [ lib |-> [ assert_eq |-> BuiltIn,
                id |-> Functions["id"],
                main |-> Main ] ]

(***************************************************************************)
(* Statements, blocks and expressions.                                      *)
(***************************************************************************)
\* the wire of a ConstOrCell, constraining a constant first
cell_of(w, cvar) ==
    IF cvar.tag = "Cell" THEN [w |-> w, ret |-> cvar.v]
    ELSE add_constant(w, Some("constant"), cvar.v)

\* the gate of assert_eq over the wires l.ret and r.ret: l.ret - r.ret = 0
assert_eq_gate(s, l, r) ==
    R([s EXCEPT !.w = add_generic_gate(r.w, "constrain eq",
                          <<Some(l.ret), Some(r.ret)>>, <<FieldOne, Neg(FieldOne)>>)],
      None)

\* the right-hand side of assert_eq gets its wire after the left-hand side
assert_eq_rhs(s, l, rhs) == assert_eq_gate(s, l, cell_of(l.w, rhs))

\* the handler of the built-in assert_eq: one generic gate lhs - rhs = 0
\* over the wires of its two arguments; it returns no value
assert_eq(s, args) ==
    IF Failed(s) THEN R(s, None)
    ELSE IF Len(args) # 2 \/ Len(args[1].var) # 1 \/ Len(args[2].var) # 1
      THEN R(PanicS(s), None)
    ELSE assert_eq_rhs(s, cell_of(s.w, args[1].var[1]), args[2].var[1])

\* the range of field rhs among the declared fields, from field i on
RECURSIVE field_range(_, _, _, _)

\* field_range that does not add up the sizes of the fields before
field_range_from_zero(fields, rhs, i, start) ==
    IF i > Len(fields) THEN [start |-> start, len |-> 0]
    ELSE IF fields[i].name = rhs
      THEN [start |-> start, len |-> size_of(fields[i].typ)]
    ELSE field_range(fields, rhs, i + 1, start)

field_range(fields, rhs, i, start) ==
    IF i > Len(fields) THEN [start |-> start, len |-> 0]
    ELSE IF fields[i].name = rhs
      THEN [start |-> start, len |-> size_of(fields[i].typ)]
    ELSE field_range(fields, rhs, i + 1, start + size_of(fields[i].typ))

\* `res.map(|r| r.map(VarOrRef::Var))`
map_var(r) == R(r.s, IF r.res = None THEN None ELSE Some(VVar(r.res[1])))

\* the caller going on in the FnEnv of the callee
caller_env_of_callee(r, env) == r

\* the FnEnv of the callee is local to the call: the caller goes on in its own
caller_env(r, env) == R([r.s EXCEPT !.env = env], r.res)

RECURSIVE compute_expr(_, _), compute_args(_, _, _, _), push_arg(_, _, _, _),
          compute_items(_, _, _, _), push_item(_, _, _, _),
          compile_stmt(_, _), for_loop(_, _, _), compile_block(_, _),
          block_stmts(_, _, _), compile_native_function_call(_, _, _)

\* the `for arg in args` loop of FnCall: the arguments as VarInfo, by value
compute_args(s, args, i, acc) ==
    IF Failed(s) \/ i > Len(args) THEN R(s, acc)
    ELSE push_arg(compute_expr(s, args[i]), args, i, acc)

\* `vars.push(var_info)` with the value v of argument i
push_arg_value(v, args, i, acc) ==
    compute_args(v.s, args, i + 1, Append(acc, VarInfo(v.res, FALSE, args[i].typ)))

\* argument i evaluated to r
push_arg(r, args, i, acc) ==
    IF Failed(r.s) THEN R(r.s, acc)
    ELSE IF r.res = None
      THEN R(Fail(r.s, Err("CannotComputeExpression", 0, 0)), acc)
    ELSE push_arg_value(VarOrRef_value(r.s, r.res[1]), args, i, acc)

\* the `for item in items` loop of array and struct literals
compute_items(s, items, i, cvars) ==
    IF Failed(s) \/ i > Len(items) THEN R(s, cvars)
    ELSE push_item(compute_expr(s, items[i]), items, i, cvars)

\* `cvars.extend(to_extend)` with the value v of item i
push_item_value(v, items, i, cvars) == compute_items(v.s, items, i + 1, cvars \o v.res)

\* item i evaluated to r
push_item(r, items, i, cvars) ==
    IF Failed(r.s) THEN R(r.s, cvars)
    ELSE IF r.res = None THEN R(PanicS(r.s), cvars)
    ELSE push_item_value(VarOrRef_value(r.s, r.res[1]), items, i, cvars)

\* the `for (name, var_info) in arguments.zip(args)` loop
RECURSIVE bind_arguments(_, _, _, _)
bind_arguments(s, arguments, args, i) ==
    IF Failed(s) \/ i > Len(arguments) THEN s
    ELSE bind_arguments(add_var(s, arguments[i].name, args[i]), arguments, args, i + 1)

\* compile_native_function_call with a FnEnv that lacks the named constants
compile_native_function_call_unseeded(s, function, args) ==
    IF Failed(s) THEN R(s, None)
    ELSE IF is_main(function) THEN R(PanicS(s), None)
    ELSE IF Len(function.sig.arguments) # Len(args) THEN R(PanicS(s), None)
    ELSE LET called == Log([s EXCEPT !.env = FnEnv_new(EmptyMap)], function, "call")
             bound == bind_arguments(called, function.sig.arguments, args, 1)
         IN  caller_env(compile_block(bound, function.body), s.env)

\* compile_native_function_call: the callee runs in a FnEnv of its own
compile_native_function_call(s, function, args) ==
    IF Failed(s) THEN R(s, None)
    ELSE IF is_main(function) THEN R(PanicS(s), None)
    ELSE IF Len(function.sig.arguments) # Len(args) THEN R(PanicS(s), None)
    ELSE LET called == Log([s EXCEPT !.env = FnEnv_new(s.w.constants)],
                           function, "call")
             bound == bind_arguments(called, function.sig.arguments, args, 1)
         IN  caller_env(compile_block(bound, function.body), s.env)

\* FnCall, its arguments computed to a: the function is found and called
call_function(a, expr) ==
    IF Failed(a.s) THEN R(a.s, None)
    ELSE IF expr.module # None
      THEN IF expr.module[1] \notin DOMAIN Modules
             THEN R(Fail(a.s, Err("UndefinedModule", 0, 0)), None)
           ELSE IF expr.fn_name \notin DOMAIN Modules[expr.module[1]]
             THEN R(Fail(a.s, Err("UndefinedFunction", 0, 0)), None)
           ELSE IF Modules[expr.module[1]][expr.fn_name].kind = "BuiltIn"
             THEN map_var(assert_eq(a.s, a.res))
           ELSE IF Modules[expr.module[1]][expr.fn_name].kind = "Native"
             THEN R(PanicS(a.s), None)
           ELSE R(Fail(a.s, Err("RecursiveMain", 0, 0)), None)
    ELSE IF expr.fn_name \notin DOMAIN Functions
      THEN R(Fail(a.s, Err("UndefinedFunction", 0, 0)), None)
    ELSE IF Functions[expr.fn_name].kind = "BuiltIn"
      THEN map_var(assert_eq(a.s, a.res))
    ELSE IF Functions[expr.fn_name].kind = "Native"
      THEN map_var(compile_native_function_call(
                       a.s, Functions[expr.fn_name].function, a.res))
    ELSE R(Fail(a.s, Err("RecursiveMain", 0, 0)), None)

\* FieldAccess, its left-hand side computed to l
field_access(l, expr) ==
    IF Failed(l.s) THEN R(l.s, None)
    ELSE IF l.res = None \/ expr.lhs.typ = None
      THEN R(Fail(l.s, Err("CannotComputeExpression", 0, 0)), None)
    ELSE IF expr.lhs.typ[1].k # "Custom" THEN R(PanicS(l.s), None)
    ELSE IF expr.lhs.typ[1].name \notin DOMAIN Structs THEN R(PanicS(l.s), None)
    ELSE LET f == field_range(Structs[expr.lhs.typ[1].name], expr.rhs, 1, 0)
         IN  narrow(l.s, l.res[1], f.start, f.len)

\* ArrayAccess of var, its index computed to ix.  An index above UsizeMax
\* fails `try_into().unwrap()`.  For an array of length 0 the bound
\* `array_len - 1` underflows: a build that checks overflow panics, any
\* other wraps around to UsizeMax.
array_access(var, ix, expr) ==
    IF Failed(ix.s) THEN R(ix.s, None)
    ELSE IF ix.res = None
      THEN R(Fail(ix.s, Err("CannotComputeExpression", 0, 0)), None)
    ELSE IF constant(ix.res[1]) = None
      THEN R(Fail(ix.s, Err("ExpectedConstant", 0, 0)), None)
    ELSE
    LET idx == constant(ix.res[1])[1]
    IN  IF idx > UsizeMax THEN R(PanicS(ix.s), None)
        ELSE IF expr.array.typ = None THEN R(PanicS(ix.s), None)
        ELSE IF expr.array.typ[1].k # "Array" THEN R(PanicS(ix.s), None)
        ELSE
        LET array_len == expr.array.typ[1].len
            len == size_of(expr.array.typ[1].elem)
            start == idx * len
        IN  IF idx >= array_len
              THEN IF array_len >= 1
                     THEN R(Fail(ix.s, Err("ArrayIndexOutOfBounds", idx, array_len - 1)),
                            None)
                   ELSE IF ix.s.checked THEN R(PanicS(ix.s), None)
                   ELSE R(Fail(ix.s, Err("ArrayIndexOutOfBounds", idx, UsizeMax)), None)
            ELSE IF start >= vlen(var) \/ start + len > vlen(var)
              THEN R(Fail(ix.s, Err("ArrayIndexOutOfBounds", start, vlen(var))), None)
            ELSE narrow(ix.s, var, start, len)

\* ArrayAccess, its array computed to base: the index is computed next
array_access_index(base, expr) ==
    IF Failed(base.s) THEN R(base.s, None)
    ELSE IF base.res = None THEN R(PanicS(base.s), None)
    ELSE array_access(base.res[1], compute_expr(base.s, expr.idx), expr)

(***************************************************************************)
(* The built-in operations of field and boolean.  Each computes one field  *)
(* element from two: a constant when both are constants, else a fresh wire  *)
(* and one generic gate over the wires of the operands and the fresh wire;  *)
(* the gate's note is the label of the operation that asked for it.         *)
(***************************************************************************)
Fold(op, a, b) ==
    CASE op = "Addition" -> (a + b) % (MaxField + 1)
      [] op = "Subtraction" -> (a + Neg(b)) % (MaxField + 1)
      [] op = "Multiplication" -> (a * b) % (MaxField + 1)
      [] op = "Equality" -> IF a = b THEN FieldOne ELSE FieldZero
      [] op = "BoolAnd" -> a * b
      [] op = "BoolOr" -> IF a = FieldOne \/ b = FieldOne THEN FieldOne ELSE FieldZero

\* the wire slot of an operand: constants take no slot
SlotOf(cvar) == IF cvar.tag = "Cell" THEN Some(cvar.v) ELSE None

\* the gate of an operation over a and b, its result being the fresh wire nv.ret
field_op_gate(s, nv, label, a, b) ==
    R([s EXCEPT !.w = add_generic_gate(nv.w, label,
                          <<SlotOf(a), SlotOf(b), Some(nv.ret)>>,
                          <<FieldOne, FieldOne, Neg(FieldOne)>>)],
      <<Cell(nv.ret)>>)

field_op(s, op, label, a, b) ==
    IF Failed(s) THEN R(s, <<Const(FieldZero)>>)
    ELSE IF a.tag = "Const" /\ b.tag = "Const" THEN R(s, new_constant(Fold(op, a.v, b.v)))
    ELSE field_op_gate(s, new_internal_var(s.w, ValueHint(op, a, b)), label, a, b)

\* field::equal: the pairs of cells are compared, the results and-ed
RECURSIVE equal_cells(_, _, _, _)
equal_and(eq, lhs, rhs, k, acc) ==
    equal_cells(field_op(eq.s, "BoolAnd", "equal", acc, eq.res[1]), lhs, rhs, k + 1)
equal_cells(r, lhs, rhs, k) ==
    IF Failed(r.s) \/ k > Len(lhs) THEN r
    ELSE equal_and(field_op(r.s, "Equality", "equal", lhs[k], rhs[k]), lhs, rhs, k,
                   r.res[1])
equal(s, lhs, rhs) ==
    IF Len(lhs) # Len(rhs) THEN R(PanicS(s), <<>>)
    ELSE equal_cells(R(s, new_constant(FieldOne)), lhs, rhs, 1)

\* field::if_else: per cell, cond * then_ + (1 - cond) * else_
select_sum(cond_then, temp) ==
    field_op(temp.s, "Addition", "if_else", cond_then.res[1], temp.res[1])
select_else(cond_then, one_minus_cond, else_) ==
    select_sum(cond_then,
               field_op(one_minus_cond.s, "Multiplication", "if_else",
                        one_minus_cond.res[1], else_))
select_then(cond_then, cond, else_) ==
    select_else(cond_then,
                field_op(cond_then.s, "Subtraction", "if_else", Const(FieldOne), cond),
                else_)
if_else_inner(s, cond, then_, else_) ==
    select_then(field_op(s, "Multiplication", "if_else", then_, cond), cond, else_)
RECURSIVE if_else_cells(_, _, _, _, _, _)
if_else_next(r, cond, then_, else_, k, acc) ==
    if_else_cells(r.s, cond, then_, else_, k + 1, acc \o r.res)
if_else_cells(s, cond, then_, else_, k, acc) ==
    IF Failed(s) \/ k > Len(then_) THEN R(s, acc)
    ELSE if_else_next(if_else_inner(s, cond, then_[k], else_[k]), cond, then_, else_,
                      k, acc)
if_else(s, cond, then_, else_) ==
    IF Len(cond) # 1 \/ Len(then_) # Len(else_) THEN R(PanicS(s), <<>>)
    ELSE if_else_cells(s, cond[1], then_, else_, 1, <<>>)

\* `Ok(Some(VarOrRef::Var(res)))`
var_result(r) == IF Failed(r.s) THEN R(r.s, None) ELSE R(r.s, Some(VVar(r.res)))

\* the labels of the gates of the binary operations
OpLabel ==
    [ Addition |-> "add", Subtraction |-> "sub", Multiplication |-> "mul",
      Equality |-> "equal", BoolAnd |-> "and", BoolOr |-> "or" ]

\* BinaryOp, the values of both operands taken: the `match op`
binary_apply(lcvars, rv, expr) ==
    IF Failed(rv.s) THEN R(rv.s, None)
    ELSE IF expr.op = "Division" THEN R(PanicS(rv.s), None)
    ELSE IF expr.op = "Equality" THEN var_result(equal(rv.s, lcvars, rv.res))
    ELSE IF Len(lcvars) = 0 \/ Len(rv.res) = 0 THEN R(PanicS(rv.s), None)
    ELSE var_result(field_op(rv.s, expr.op, OpLabel[expr.op], lcvars[1], rv.res[1]))

\* BinaryOp, the value of the left operand taken to lv
binary_values(lv, rhs, expr) ==
    IF Failed(lv.s) THEN R(lv.s, None)
    ELSE binary_apply(lv.res, VarOrRef_value(lv.s, rhs), expr)

\* BinaryOp, its right operand computed to r after the left one, lhs
binary_rhs(r, lhs, expr) ==
    IF Failed(r.s) THEN R(r.s, None)
    ELSE IF r.res = None THEN R(PanicS(r.s), None)
    ELSE binary_values(VarOrRef_value(r.s, lhs), r.res[1], expr)

\* BinaryOp, its left operand computed to l: the right operand is next
binary_lhs(l, expr) ==
    IF Failed(l.s) THEN R(l.s, None)
    ELSE IF l.res = None THEN R(PanicS(l.s), None)
    ELSE binary_rhs(compute_expr(l.s, expr.rhs), l.res[1], expr)

\* BinaryOp, its right operand computed to r: the left operand is next
binary_lhs_after(l, rhs, expr) ==
    IF Failed(l.s) THEN R(l.s, None)
    ELSE IF l.res = None THEN R(PanicS(l.s), None)
    ELSE binary_values(VarOrRef_value(l.s, l.res[1]), rhs, expr)
binary_rhs_before(r, expr) ==
    IF Failed(r.s) THEN R(r.s, None)
    ELSE IF r.res = None THEN R(PanicS(r.s), None)
    ELSE binary_lhs_after(compute_expr(r.s, expr.lhs), r.res[1], expr)

\* BinaryOp with the right operand computed before the left one
binary_op_right_first(s, expr) ==
    binary_rhs_before(compute_expr(s, expr.rhs), expr)

\* BinaryOp: the left operand is computed, then the right one
binary_op(s, expr) == binary_lhs(compute_expr(s, expr.lhs), expr)

\* IfElse, the three values taken: the select
if_else_apply(condv, thenv, ev) ==
    IF Failed(ev.s) THEN R(ev.s, None)
    ELSE var_result(if_else(ev.s, condv, thenv, ev.res))

\* IfElse, the else branch computed to e
if_else_else(e, condv, thenv) ==
    IF Failed(e.s) THEN R(e.s, None)
    ELSE IF e.res = None THEN R(PanicS(e.s), None)
    ELSE if_else_apply(condv, thenv, VarOrRef_value(e.s, e.res[1]))

\* IfElse, the value of the then branch taken to tv: the else branch is next
if_else_then_value(tv, condv, expr) ==
    IF Failed(tv.s) THEN R(tv.s, None)
    ELSE if_else_else(compute_expr(tv.s, expr.else_), condv, tv.res)

\* IfElse, the then branch computed to t
if_else_then(t, condv, expr) ==
    IF Failed(t.s) THEN R(t.s, None)
    ELSE IF t.res = None THEN R(PanicS(t.s), None)
    ELSE if_else_then_value(VarOrRef_value(t.s, t.res[1]), condv, expr)

\* IfElse, the value of the condition taken to cv: the then branch is next
if_else_cond_value(cv, expr) ==
    IF Failed(cv.s) THEN R(cv.s, None)
    ELSE if_else_then(compute_expr(cv.s, expr.then_), cv.res, expr)

\* IfElse, the condition computed to c
if_else_cond(c, expr) ==
    IF Failed(c.s) THEN R(c.s, None)
    ELSE IF c.res = None THEN R(PanicS(c.s), None)
    ELSE if_else_cond_value(VarOrRef_value(c.s, c.res[1]), expr)

\* Not, the value of its operand taken to v: boolean::not is 1 - b
not_apply(v) ==
    IF Failed(v.s) THEN R(v.s, None)
    ELSE IF Len(v.res) = 0 THEN R(PanicS(v.s), None)
    ELSE var_result(field_op(v.s, "Subtraction", "not", Const(FieldOne), v.res[1]))

\* Not and Negated, the operand computed to r; Negated is not implemented
unary(r, expr) ==
    IF Failed(r.s) THEN R(r.s, None)
    ELSE IF r.res = None THEN R(PanicS(r.s), None)
    ELSE IF expr.kind = "Negated" THEN R(PanicS(VarOrRef_value(r.s, r.res[1]).s), None)
    ELSE not_apply(VarOrRef_value(r.s, r.res[1]))

\* MethodCall, its arguments computed to a: the method is executed
method_execute(a, func) ==
    IF Failed(a.s) THEN R(a.s, None)
    ELSE map_var(compile_native_function_call(a.s, func, a.res))

\* MethodCall with a method that takes self, the receiver's value being
\* v.res: self is the first argument, the written arguments follow
method_args(v, func, expr) ==
    IF Failed(v.s) THEN R(v.s, None)
    ELSE method_execute(
             compute_args(v.s, expr.args, 1, <<VarInfo(v.res, FALSE, expr.lhs.typ)>>),
             func)

\* MethodCall, the receiver computed to l and the method found: the test of
\* the method's first argument
method_self(l, func, expr) ==
    IF Len(func.sig.arguments) >= 1
    THEN IF func.sig.arguments[1].name = "self"
           THEN IF l.res = None
                  THEN R(Fail(l.s, Err("NotAStaticMethod", 0, 0)), None)
                ELSE method_args(VarOrRef_value(l.s, l.res[1]), func, expr)
         ELSE method_execute(compute_args(l.s, expr.args, 1, <<>>), func)
    ELSE IF l.res # None THEN R(PanicS(l.s), None)
    ELSE method_execute(compute_args(l.s, expr.args, 1, <<>>), func)

\* MethodCall, the receiver computed to l: the struct and its method are
\* looked up
method_receiver(l, expr) ==
    IF Failed(l.s) THEN R(l.s, None)
    ELSE IF expr.lhs.typ[1].name \notin DOMAIN Methods THEN R(PanicS(l.s), None)
    ELSE IF expr.method_name \notin DOMAIN Methods[expr.lhs.typ[1].name]
      THEN R(PanicS(l.s), None)
    ELSE method_self(l, Methods[expr.lhs.typ[1].name][expr.method_name], expr)

\* MethodCall: the receiver's type must be a struct
method_call(s, expr) ==
    IF expr.lhs.typ = None THEN R(PanicS(s), None)
    ELSE IF expr.lhs.typ[1].k # "Custom" THEN R(PanicS(s), None)
    ELSE method_receiver(compute_expr(s, expr.lhs), expr)

\* the `match lhs` of Assignment with a concrete Var taken as nothing to do
assign_to_rvalue_ignored(v, lhs) ==
    IF Failed(v.s) THEN R(v.s, None)
    ELSE IF lhs.tag = "Var" THEN R(v.s, None)
    ELSE R(reassign_var_range(v.s, lhs.var_name, v.res, lhs.start, lhs.len), None)

\* the `match lhs` of Assignment, the right-hand side's Var being v.res: a
\* concrete Var cannot be assigned to, a reference is reassigned
assign_to(v, lhs) ==
    IF Failed(v.s) THEN R(v.s, None)
    ELSE IF lhs.tag = "Var" THEN R(PanicS(v.s), None)
    ELSE R(reassign_var_range(v.s, lhs.var_name, v.res, lhs.start, lhs.len), None)

\* Assignment, its right-hand side computed to r
assignment_rhs(r, lhs) ==
    IF Failed(r.s) THEN R(r.s, None)
    ELSE IF r.res = None THEN R(PanicS(r.s), None)
    ELSE assign_to(VarOrRef_value(r.s, r.res[1]), lhs)

\* Assignment, its left-hand side computed to l
assignment_lhs(l, expr) ==
    IF Failed(l.s) THEN R(l.s, None)
    ELSE IF l.res = None THEN R(PanicS(l.s), None)
    ELSE assignment_rhs(compute_expr(l.s, expr.rhs), l.res[1])

\* an array or struct literal, its items computed to r
declaration(r) == IF Failed(r.s) THEN R(r.s, None) ELSE R(r.s, Some(VVar(r.res)))

compute_expr(s, expr) ==
    IF Failed(s) THEN R(s, None)
    ELSE CASE expr.kind = "FnCall" ->
                call_function(compute_args(s, expr.args, 1, <<>>), expr)
           [] expr.kind = "FieldAccess" ->
                field_access(compute_expr(s, expr.lhs), expr)
           [] expr.kind = "Assignment" ->
                assignment_lhs(compute_expr(s, expr.lhs), expr)
           [] expr.kind = "MethodCall" -> method_call(s, expr)
           [] expr.kind = "BinaryOp" -> binary_op(s, expr)
           [] expr.kind = "IfElse" -> if_else_cond(compute_expr(s, expr.cond), expr)
           [] expr.kind \in {"Not", "Negated"} -> unary(compute_expr(s, expr.b), expr)
           [] expr.kind = "BigInt" ->
                IF expr.value > MaxField
                THEN R(Fail(s, Err("CannotConvertToField", 0, 0)), None)
                ELSE R(s, Some(VVar(new_constant(expr.value))))
           [] expr.kind = "Bool" ->
                R(s, Some(VVar(new_constant(IF expr.value THEN FieldOne ELSE FieldZero))))
           [] expr.kind = "Variable" ->
                IF is_type(expr.name) THEN R(s, None)
                ELSE IF ~is_bound(s.env, expr.name) THEN R(PanicS(s), None)
                ELSE R(s, Some(from_var_info(expr.name, get_var(s.env, expr.name))))
           [] expr.kind = "ArrayAccess" ->
                array_access_index(compute_expr(s, expr.array), expr)
           [] expr.kind \in {"ArrayDeclaration", "CustomTypeDeclaration"} ->
                declaration(compute_items(s, expr.items, 1, <<>>))

\* the end of iteration ii, its block compiled to r: the frame is popped
next_iteration(r, stmt, ii) ==
    IF Failed(r.s) THEN r.s
    ELSE for_loop([r.s EXCEPT !.env = pop(@)], stmt, ii + 1)

\* the iterations ii, ii + 1, ... of a ForLoop statement
for_loop(s, stmt, ii) ==
    IF Failed(s) \/ ii >= stmt.range.end THEN s
    ELSE LET nested == [s EXCEPT !.env = nest(@)]
             bound == add_var(nested, stmt.var,
                              VarInfo(new_constant(ii), FALSE, Some(TyField)))
         IN  next_iteration(compile_block(bound, stmt.body), stmt, ii)

\* `fn_env.add_var(lhs, var_info)` with the value v of the right-hand side
assign_value(v, stmt) ==
    R(add_var(v.s, stmt.lhs, VarInfo(v.res, stmt.mutable, stmt.rhs.typ)), None)

\* Assign, Expr and Return, the statement's expression computed to e
stmt_expr(e, stmt) ==
    IF Failed(e.s) THEN R(e.s, None)
    ELSE CASE stmt.kind = "Assign" ->
                IF e.res = None
                THEN R(Fail(e.s, Err("CannotComputeExpression", 0, 0)), None)
                ELSE assign_value(VarOrRef_value(e.s, e.res[1]), stmt)
           [] stmt.kind = "Expr" ->
                IF e.res # None THEN R(PanicS(e.s), None) ELSE R(e.s, None)
           [] stmt.kind = "Return" ->
                IF e.res = None
                THEN R(Fail(e.s, Err("CannotComputeExpression", 0, 0)), None)
                ELSE e

\* the match of compile_stmt on the kind of the statement
stmt_kind(s, stmt) ==
    CASE stmt.kind = "Assign" -> stmt_expr(compute_expr(s, stmt.rhs), stmt)
      [] stmt.kind = "ForLoop" -> R(for_loop(s, stmt, stmt.range.start), None)
      [] stmt.kind \in {"Expr", "Return"} -> stmt_expr(compute_expr(s, stmt.expr), stmt)
      [] stmt.kind = "Comment" -> R(s, None)

\* the history records the exit of a statement that did not fail
stmt_exit(r, stmt) == IF Failed(r.s) THEN r ELSE R(Log(r.s, stmt, "exit"), r.res)

\* compile_stmt; the history records the statement's entry and its exit
compile_stmt(s, stmt) ==
    IF Failed(s) THEN R(s, None)
    ELSE stmt_exit(stmt_kind(Log(s, stmt, "enter"), stmt), stmt)

\* a block returns a value, never a reference
block_value(v) == R(v.s, Some(v.res))

\* the block going on with its next statement after a statement that
\* returned a value
after_stmt_goes_on(r, stmts, i) ==
    IF Failed(r.s) THEN R(r.s, None) ELSE block_stmts(r.s, stmts, i + 1)

\* statement i of the block compiled to r: a value ends the block and
\* leaves its frame on the stack
after_stmt(r, stmts, i) ==
    IF Failed(r.s) THEN R(r.s, None)
    ELSE IF r.res # None THEN block_value(VarOrRef_value(r.s, r.res[1]))
    ELSE block_stmts(r.s, stmts, i + 1)

\* the statements i, i + 1, ... of a block whose frame is pushed
block_stmts(s, stmts, i) ==
    IF Failed(s) THEN R(s, None)
    ELSE IF i > Len(stmts) THEN R([s EXCEPT !.env = pop(@)], None)
    ELSE after_stmt(compile_stmt(s, stmts[i]), stmts, i)

\* compile_block
compile_block(s, stmts) ==
    IF Failed(s) THEN R(s, None)
    ELSE block_stmts([s EXCEPT !.env = nest(@)], stmts, 1)

\* boolean::check: a constant must be 0 or 1; a wire x gets the generic gate
\* x * x - x = 0
boolean_check(w, xx) ==
    IF w.panic THEN w
    ELSE IF xx.tag = "Const"
      THEN IF xx.v \in {FieldZero, FieldOne} THEN w ELSE Panic(w)
    ELSE add_generic_gate(w, "constraint to validate a boolean",
                          <<Some(xx.v), Some(xx.v), None>>,
                          <<Neg(FieldOne), FieldZero, FieldZero, FieldOne>>)

\* constrain_inputs_to_main, with its loops over the chunks of an array
\* (from cell `off` on) and over the fields of a struct (from field i on)
RECURSIVE constrain_inputs_to_main(_, _, _), constrain_chunks(_, _, _, _, _),
          constrain_fields(_, _, _, _, _)
constrain_inputs_to_main(w, input, input_typ) ==
    IF w.panic THEN w
    ELSE CASE input_typ.k = "Field" -> w
           [] input_typ.k = "Bool" ->
                IF Len(input) # 1 THEN Panic(w) ELSE boolean_check(w, input[1])
           [] input_typ.k = "Array" ->
                LET el_size == size_of(input_typ.elem)
                IN  IF el_size = 0 THEN Panic(w)
                    ELSE constrain_chunks(w, input, input_typ.elem, el_size, 0)
           [] input_typ.k = "Custom" ->
                IF input_typ.name \notin DOMAIN Structs THEN Panic(w)
                ELSE constrain_fields(w, input, Structs[input_typ.name], 1, 0)
constrain_chunks(w, input, tykind, el_size, off) ==
    IF w.panic \/ off >= Len(input) THEN w
    ELSE LET last_cell == IF off + el_size <= Len(input) THEN off + el_size
                          ELSE Len(input)
         IN  constrain_chunks(
                 constrain_inputs_to_main(w, SubSeq(input, off + 1, last_cell), tykind),
                 input, tykind, el_size, off + el_size)
constrain_fields(w, input, fields, i, offset) ==
    IF w.panic \/ i > Len(fields) THEN w
    ELSE LET len == size_of(fields[i].typ)
         IN  IF offset + len > Len(input) THEN Panic(w)
             ELSE constrain_fields(
                     constrain_inputs_to_main(w, range(input, offset, len),
                                              fields[i].typ),
                     input, fields, i + 1, offset + len)

\* the `for (pub_var, ret_var) in public_output.cvars.zip(returned_cells)` loop
RECURSIVE bind_outputs(_, _, _, _)

\* bind_outputs binding every output to its own wire
bind_outputs_to_itself(w, pub_vars, ret_vars, i) ==
    IF w.panic \/ i > Len(pub_vars) \/ i > Len(ret_vars) THEN w
    ELSE LET var_idx == pub_vars[i].v
         IN  IF var_idx \notin DOMAIN w.witness_vars THEN Panic(w)
             ELSE bind_outputs(
                     [w EXCEPT !.witness_vars =
                                  Insert(@, var_idx, ValuePublicOutput(Some(var_idx)))],
                     pub_vars, ret_vars, i + 1)

\* bind_outputs binding every output to the first returned wire
bind_outputs_first_wire(w, pub_vars, ret_vars, i) ==
    IF w.panic \/ i > Len(pub_vars) \/ i > Len(ret_vars) THEN w
    ELSE LET var_idx == pub_vars[i].v
         IN  IF var_idx \notin DOMAIN w.witness_vars THEN Panic(w)
             ELSE bind_outputs(
                     [w EXCEPT !.witness_vars =
                                  Insert(@, var_idx, ValuePublicOutput(Some(ret_vars[1].v)))],
                     pub_vars, ret_vars, i + 1)

bind_outputs(w, pub_vars, ret_vars, i) ==
    IF w.panic \/ i > Len(pub_vars) \/ i > Len(ret_vars) THEN w
    ELSE LET var_idx == pub_vars[i].v
         IN  IF var_idx \notin DOMAIN w.witness_vars THEN Panic(w)
             ELSE bind_outputs(
                     [w EXCEPT !.witness_vars =
                                  Insert(@, var_idx, ValuePublicOutput(Some(ret_vars[i].v)))],
                     pub_vars, ret_vars, i + 1)

\* the match of compile_main_function binding the outputs before it looks
\* for a constant among the returned cells
main_returned_binds_first(r, function) ==
    IF Failed(r.s) THEN r
    ELSE IF function.sig.return_type = None /\ r.res = None THEN r
    ELSE IF r.res = None THEN R(Fail(r.s, Err("MissingReturn", 0, 0)), r.res)
    ELSE IF function.sig.return_type = None
      THEN R(Fail(r.s, Err("UnexpectedReturn", 0, 0)), r.res)
    ELSE IF r.s.w.public_output = None THEN R(PanicS(r.s), r.res)
    ELSE IF \E k \in 1..Len(r.res[1]) : r.res[1][k].tag = "Const"
      THEN R(Fail([r.s EXCEPT !.w = bind_outputs(@, r.s.w.public_output[1], r.res[1], 1)],
                  Err("ConstantInOutput", 0, 0)),
             r.res)
    ELSE R([r.s EXCEPT !.w = bind_outputs(@, r.s.w.public_output[1], r.res[1], 1)],
           r.res)

\* the match of compile_main_function with its two error arms taken as
\* successes
main_returned_lenient(r, function) ==
    IF Failed(r.s) THEN r
    ELSE IF function.sig.return_type = None \/ r.res = None THEN r
    ELSE IF \E k \in 1..Len(r.res[1]) : r.res[1][k].tag = "Const"
      THEN R(Fail(r.s, Err("ConstantInOutput", 0, 0)), r.res)
    ELSE IF r.s.w.public_output = None THEN R(PanicS(r.s), r.res)
    ELSE R([r.s EXCEPT !.w = bind_outputs(@, r.s.w.public_output[1], r.res[1], 1)],
           r.res)

\* the match of compile_main_function on the declared return type and the
\* value r.res the block returned
main_returned(r, function) ==
    IF Failed(r.s) THEN r
    ELSE IF function.sig.return_type = None /\ r.res = None THEN r
    ELSE IF r.res = None THEN R(Fail(r.s, Err("MissingReturn", 0, 0)), r.res)
    ELSE IF function.sig.return_type = None
      THEN R(Fail(r.s, Err("UnexpectedReturn", 0, 0)), r.res)
    ELSE IF \E k \in 1..Len(r.res[1]) : r.res[1][k].tag = "Const"
      THEN R(Fail(r.s, Err("ConstantInOutput", 0, 0)), r.res)
    ELSE IF r.s.w.public_output = None THEN R(PanicS(r.s), r.res)
    ELSE R([r.s EXCEPT !.w = bind_outputs(@, r.s.w.public_output[1], r.res[1], 1)],
           r.res)

\* compile_main_function; the result holds what the block returned
compile_main_function(s, function) ==
    IF ~is_main(function) THEN R(PanicS(s), None)
    ELSE main_returned(compile_block(s, function.body), function)

(***************************************************************************)
(* The programs compiled: named constants and a main function.  The         *)
(* statements of a program carry distinct spans.                            *)
(***************************************************************************)
Program(cst, main) == [constants |-> cst, main |-> main]
NamedConstant(name, cst) == [name |-> name, value |-> cst]
MainFn(arguments, return_type, body) == Function("main", arguments, return_type, body)

\* the writer alone, with no program to compile
NoProgram == Program(<<>>, MainFn(<<>>, None, <<>>))

Field2 == TyArray(TyField, 2)
ArgX == FnArg("x", TRUE, TyField)
ArgY == FnArg("y", FALSE, Field2)
ArgT == FnArg("t", FALSE, TyCustom("Thing"))
ArgB == FnArg("b", TRUE, TyBool)
VarX == Variable("x", Some(TyField))
VarY == Variable("y", Some(Field2))
VarI == Variable("i", Some(TyField))
AssertEq(lhs, rhs) == FnCall(None, "assert_eq", <<lhs, rhs>>, None)
Lit2(a, b) == ArrayDeclaration(<<BigInt(a), BigInt(b)>>, Some(Field2))

\* programs whose main returns, or fails to return, a value
ReturnBodies ==
    { [args |-> <<ArgX>>, ret |-> Some(TyField), body |-> <<Return(1, VarX)>>],
      [args |-> <<ArgX, ArgY>>, ret |-> Some(Field2), body |-> <<Return(1, VarY)>>],
      [args |-> <<ArgX, ArgY>>, ret |-> Some(Field2),
       body |-> <<Return(1, ArrayDeclaration(
                      <<ArrayAccess(VarY, BigInt(1), Some(TyField)), VarX>>,
                      Some(Field2)))>>],
      [args |-> <<ArgX, ArgY>>, ret |-> Some(Field2),
       body |-> <<Return(1, ArrayDeclaration(<<VarX, VarX>>, Some(Field2)))>>],
      [args |-> <<ArgX>>, ret |-> Some(TyField),
       body |-> <<ExprStmt(1, AssertEq(VarX, BigInt(1))), Return(2, VarX)>>],
      [args |-> <<ArgX>>, ret |-> Some(TyField),
       body |-> <<Return(1, FnCall(None, "id", <<VarX>>, Some(TyField)))>>],
      [args |-> <<ArgX>>, ret |-> Some(TyField),
       body |-> <<Return(1, FnCall(None, "local", <<VarX>>, Some(TyField)))>>],
      [args |-> <<ArgT>>, ret |-> Some(TyCustom("Thing")),
       body |-> <<Return(1, Variable("t", Some(TyCustom("Thing"))))>>],
      [args |-> <<ArgB>>, ret |-> Some(TyBool),
       body |-> <<Return(1, Variable("b", Some(TyBool)))>>],
      [args |-> <<ArgX>>, ret |-> Some(TyField), body |-> <<Return(1, BigInt(1))>>],
      [args |-> <<ArgX>>, ret |-> Some(Field2),
       body |-> <<Return(1, ArrayDeclaration(<<VarX, BigInt(1)>>, Some(Field2)))>>],
      [args |-> <<ArgX>>, ret |-> Some(Field2),
       body |-> <<Return(1, ArrayDeclaration(<<BigInt(1), VarX>>, Some(Field2)))>>],
      [args |-> <<ArgX>>, ret |-> Some(TyField), body |-> <<Comment(1)>>],
      [args |-> <<ArgX>>, ret |-> None, body |-> <<Return(1, VarX)>>],
      [args |-> <<ArgX>>, ret |-> None, body |-> <<Comment(1)>>],
      [args |-> <<>>, ret |-> None, body |-> <<>>],
      [args |-> <<ArgX>>, ret |-> None,
       body |-> <<ExprStmt(1, FnCall(None, "main", <<VarX>>, None))>>],
      [args |-> <<ArgX>>, ret |-> Some(TyField),
       body |-> <<Return(1, BinaryOp("Addition", VarX, VarX, Some(TyField)))>>],
      [args |-> <<ArgX>>, ret |-> Some(Field2),
       body |-> <<Return(1, ArrayDeclaration(
                      <<BinaryOp("Multiplication", VarX, VarX, Some(TyField)), VarX>>,
                      Some(Field2)))>>],
      [args |-> <<ArgX>>, ret |-> Some(TyField),
       body |-> <<Return(1, VarX), ExprStmt(2, AssertEq(VarX, BigInt(1))),
                  Assign(3, FALSE, "c", VarX)>>],
      [args |-> <<ArgX>>, ret |-> Some(TyField),
       body |-> <<Assign(1, TRUE, "m", VarX), ExprStmt(2, AssertEq(VarX, BigInt(1))),
                  Return(3, Variable("m", Some(TyField))),
                  Assign(4, FALSE, "c", BigInt(1)), Return(5, BigInt(1))>>],
      [args |-> <<ArgX>>, ret |-> None,
       body |-> <<Assign(1, TRUE, "m", VarX), ExprStmt(2, AssertEq(VarX, BigInt(1))),
                  Comment(3), Assign(4, FALSE, "c", BigInt(1))>>],
      [args |-> <<ArgX>>, ret |-> None,
       body |-> <<ExprStmt(1, FnCall(Some("lib"), "assert_eq", <<VarX, VarX>>, None))>>] }
ReturnPrograms == { Program(<<>>, MainFn(b.args, b.ret, b.body)) : b \in ReturnBodies }

\* programs with a loop `for i in lo..hi { body }` followed by a comment
LoopBodies ==
    { <<Comment(2)>>,
      <<Assign(2, FALSE, "a", VarI)>>,
      <<ExprStmt(2, AssertEq(VarX, VarI))>>,
      <<Return(2, VarI)>>,
      <<Return(2, VarI), ExprStmt(3, AssertEq(VarX, VarI))>>,
      <<Assign(2, FALSE, "a", VarI), Return(3, Variable("a", Some(TyField)))>>,
      <<ForLoop(2, "j", 0, 2, <<Assign(3, FALSE, "b", Variable("j", Some(TyField)))>>)>> }
LoopPrograms ==
    { Program(<<>>, MainFn(<<ArgX>>, None, <<ForLoop(1, "i", lo, hi, body), Comment(9)>>)) :
        lo \in 0..1, hi \in 0..3, body \in LoopBodies }

\* programs that bind a name twice, and programs that bind a name again
\* after its frame is gone or in another function's FnEnv
ConstK == NamedConstant("K", 2)
ShadowBodies ==
    { [cst |-> <<>>, body |-> <<Assign(1, FALSE, "a", BigInt(1)),
                                Assign(2, FALSE, "a", BigInt(2))>>],
      [cst |-> <<>>, body |-> <<Assign(1, FALSE, "x", BigInt(1))>>],
      [cst |-> <<ConstK>>, body |-> <<Assign(1, FALSE, "K", BigInt(1))>>],
      [cst |-> <<ConstK>>, body |-> <<Assign(1, FALSE, "a", Variable("K", Some(TyField)))>>],
      [cst |-> <<ConstK>>, body |-> <<ExprStmt(1, FnCall(None, "withk", <<VarX>>, None))>>],
      [cst |-> <<>>, body |-> <<ExprStmt(1, FnCall(None, "withk", <<VarX>>, None))>>],
      [cst |-> <<ConstK, ConstK>>, body |-> <<Comment(1)>>],
      [cst |-> <<NamedConstant("x", 1)>>, body |-> <<Comment(1)>>],
      [cst |-> <<>>, body |-> <<Assign(1, FALSE, "a", BigInt(1)),
                                ForLoop(2, "a", 0, 1, <<Comment(3)>>)>>],
      [cst |-> <<>>, body |-> <<Assign(1, FALSE, "a", BigInt(1)),
                                ForLoop(2, "a", 1, 1, <<Comment(3)>>)>>],
      [cst |-> <<>>, body |-> <<ForLoop(1, "i", 0, 2, <<ForLoop(2, "i", 0, 1, <<Comment(3)>>)>>)>>],
      [cst |-> <<>>, body |-> <<ForLoop(1, "i", 0, 2, <<Assign(2, FALSE, "x", VarI)>>)>>],
      [cst |-> <<>>, body |-> <<ForLoop(1, "i", 0, 2, <<Assign(2, FALSE, "a", VarI)>>),
                                Assign(3, FALSE, "a", BigInt(2))>>],
      [cst |-> <<>>, body |-> <<Assign(1, FALSE, "b", VarX),
                                Assign(2, FALSE, "c",
                                       FnCall(None, "local", <<Variable("b", Some(TyField))>>,
                                              Some(TyField)))>>] }
ShadowPrograms == { Program(b.cst, MainFn(<<ArgX>>, None, b.body)) : b \in ShadowBodies }

\* programs `let a = <array>; let k = 1; let b = a[idx];`
ArrayLiterals ==
    { ArrayDeclaration(<<BigInt(1), BigInt(2), BigInt(0)>>, Some(TyArray(TyField, 3))),
      ArrayDeclaration(<<Lit2(1, 2), Lit2(3, 4)>>, Some(TyArray(Field2, 2))),
      ArrayDeclaration(<<VarX>>, Some(TyArray(TyField, 1))),
      ArrayDeclaration(<<ArrayDeclaration(<<>>, Some(TyArray(TyField, 0))),
                         ArrayDeclaration(<<>>, Some(TyArray(TyField, 0)))>>,
                       Some(TyArray(TyArray(TyField, 0), 2))),
      ArrayDeclaration(<<>>, Some(TyArray(TyField, 0))) }
IndexExprs ==
    { [mut |-> FALSE, idx |-> BigInt(i)] : i \in 0..MaxField }
        \cup { [mut |-> m, idx |-> Variable("k", Some(TyField))] : m \in BOOLEAN }
        \cup { [mut |-> FALSE, idx |-> VarX] }
IndexPrograms ==
    { Program(<<>>, MainFn(<<ArgX>>, None,
          << Assign(1, m, "a", arr),
             Assign(2, ie.mut, "k", BigInt(1)),
             Assign(3, FALSE, "b",
                    ArrayAccess(Variable("a", arr.typ), ie.idx, Some(arr.typ[1].elem))) >>)) :
        m \in BOOLEAN, arr \in ArrayLiterals, ie \in IndexExprs }

\* programs `let t = <struct>; let c = t.<field>;`, after a preamble
ThingTy == Some(TyCustom("Thing"))
PairTy == Some(TyCustom("Pair"))
ThingLit == CustomTypeDeclaration("Thing", <<VarX, Lit2(1, 2)>>)
PairLit == CustomTypeDeclaration("Pair", <<ThingLit, BigInt(3)>>)
FieldExprs ==
    { [lit |-> ThingLit, acc |-> FieldAccess(Variable("t", ThingTy), f, None)] :
        f \in {"f1", "f2", "zz"} }
      \cup { [lit |-> PairLit, acc |-> FieldAccess(Variable("t", PairTy), f, None)] :
               f \in {"a", "b"} }
      \cup { [lit |-> PairLit,
              acc |-> FieldAccess(FieldAccess(Variable("t", PairTy), "a", ThingTy), f, None)] :
               f \in {"f1", "f2"} }
Preambles == { <<Comment(1)>>, <<ExprStmt(1, AssertEq(VarX, BigInt(1)))>> }
FieldPrograms ==
    { Program(<<>>, MainFn(<<ArgX>>, None,
          pre \o << Assign(2, m, "t", fe.lit), Assign(3, FALSE, "c", fe.acc) >>)) :
        pre \in Preambles, m \in BOOLEAN, fe \in FieldExprs }

\* programs `let a = [x, 1]; let mut b = 2; <lhs> = <rhs>;` and
\* `let t = Thing {..}; let mut b = 2; t.<field> = <rhs>;`
VarA == Variable("a", Some(Field2))
VarB == Variable("b", Some(TyField))
VarT == Variable("t", ThingTy)
ElemOfA(k) == ArrayAccess(VarA, BigInt(k), Some(TyField))
ArrayAssignments ==
    { Assignment(VarA, Lit2(3, 4)), Assignment(Lit2(1, 2), Lit2(3, 4)),
      Assignment(VarA, ArrayDeclaration(<<ElemOfA(1), ElemOfA(0)>>, Some(Field2))) }
        \cup { Assignment(ElemOfA(k), rhs) :
                 k \in 0..1, rhs \in {BigInt(3), VarX, VarB, ElemOfA(1)} }
StructAssignments ==
    { Assignment(FieldAccess(VarT, "f2", Some(Field2)), Lit2(3, 4)),
      Assignment(FieldAccess(VarT, "f1", Some(TyField)), VarB),
      Assignment(ArrayAccess(FieldAccess(VarT, "f2", Some(Field2)), BigInt(1),
                             Some(TyField)),
                 VarB) }
AssignmentBody(m, name, lit, asg) ==
    << Assign(1, m, name, lit), Assign(2, TRUE, "b", BigInt(2)), ExprStmt(3, asg),
       Comment(4) >>
AssignmentPrograms ==
    { Program(<<>>, MainFn(<<ArgX>>, None,
          AssignmentBody(m, "a", ArrayDeclaration(<<VarX, BigInt(1)>>, Some(Field2)), asg))) :
        m \in BOOLEAN, asg \in ArrayAssignments }
      \cup { Program(<<>>, MainFn(<<ArgX>>, None, AssignmentBody(m, "t", ThingLit, asg))) :
                m \in BOOLEAN, asg \in StructAssignments }

\* programs `let t = Thing {..}; <receiver>.<method>(<args>);` with t or the
\* type Thing as receiver
Receivers == {VarT, Variable("Thing", ThingTy)}
MethodCalls ==
    { MethodCall(recv, "get", <<>>, None) : recv \in Receivers }
      \cup { MethodCall(recv, "set", <<VarX>>, None) : recv \in Receivers }
      \cup { MethodCall(recv, "make", <<VarX>>, None) : recv \in Receivers }
      \cup { MethodCall(recv, "none", <<>>, None) : recv \in Receivers }
MethodPrograms ==
    { Program(<<>>, MainFn(<<ArgX>>, None,
          << Assign(1, m, "t", ThingLit), ExprStmt(2, call), Comment(3) >>)) :
        m \in BOOLEAN, call \in MethodCalls }

\* programs `fn main(pub x: Field, pub b: Bool) { <statement> }` whose
\* statement holds operations in operations, in literals, in arguments, in
\* a receiver and in the branches of a conditional
Add(lhs, rhs) == BinaryOp("Addition", lhs, rhs, Some(TyField))
Sub(lhs, rhs) == BinaryOp("Subtraction", lhs, rhs, Some(TyField))
Mul(lhs, rhs) == BinaryOp("Multiplication", lhs, rhs, Some(TyField))
VarBool == Variable("b", Some(TyBool))
AddMul == ArrayDeclaration(<<Add(VarX, VarX), Mul(VarX, VarX)>>, Some(Field2))
SubSub == ArrayDeclaration(<<Sub(VarX, VarX), Sub(VarX, BigInt(1))>>, Some(Field2))
Conditions ==
    { Bool(TRUE), Bool(FALSE), VarBool, Not(VarBool),
      BinaryOp("BoolAnd", VarBool, VarBool, Some(TyBool)),
      BinaryOp("BoolOr", VarBool, Not(VarBool), Some(TyBool)),
      BinaryOp("Equality", AddMul, SubSub, Some(TyBool)) }
OrderExprs ==
    { Mul(Add(VarX, VarX), Sub(VarX, VarX)),
      Sub(Add(Mul(VarX, VarX), Sub(VarX, VarX)), Add(VarX, BigInt(1))),
      AddMul,
      CustomTypeDeclaration("Thing", <<Sub(VarX, VarX), AddMul>>),
      FnCall(None, "id", <<Add(VarX, VarX)>>, Some(TyField)),
      BinaryOp("Division", VarX, VarX, Some(TyField)),
      Negated(VarX),
      Add(BigInt(1), BigInt(2)) }
      \cup { IfElse(cond, Add(VarX, VarX), Sub(VarX, VarX), Some(TyField)) :
                cond \in Conditions }
      \cup { IfElse(cond, AddMul, SubSub, Some(Field2)) : cond \in Conditions }
OrderStatements ==
    { Assign(1, FALSE, "r", expr) : expr \in OrderExprs }
      \cup { ExprStmt(1, AssertEq(Add(VarX, VarX), Mul(VarX, VarX))),
              ExprStmt(1, MethodCall(
                  CustomTypeDeclaration("Thing", <<Add(VarX, VarX), Lit2(1, 2)>>),
                  "set", <<Mul(VarX, VarX)>>, None)) }
OrderPrograms ==
    { Program(<<>>, MainFn(<<ArgX, ArgB>>, None, <<stmt>>)) : stmt \in OrderStatements }

\* programs `fn main(pub x: Field) { <call>; }` whose call is free or goes
\* through the module lib or through a module that does not exist, to a
\* user-defined function, to a built-in, to main and to an unknown name
CallModules == {None, Some("lib"), Some("nope")}
CallStatements ==
    { Assign(1, FALSE, "r", FnCall(m, f, <<VarX>>, Some(TyField))) :
        m \in CallModules, f \in {"id", "local", "nope"} }
      \cup { ExprStmt(1, FnCall(m, "assert_eq", <<VarX, VarX>>, None)) : m \in CallModules }
      \cup { ExprStmt(1, FnCall(m, "main", <<VarX>>, None)) : m \in CallModules }
CallPrograms ==
    { Program(<<>>, MainFn(<<ArgX>>, None, <<stmt, Comment(2)>>)) : stmt \in CallStatements }

Programs ==
    ReturnPrograms \cup LoopPrograms \cup ShadowPrograms \cup IndexPrograms
        \cup FieldPrograms \cup AssignmentPrograms \cup MethodPrograms
        \cup OrderPrograms \cup CallPrograms

(***************************************************************************)
(* State: the fields of the CircuitWriter, whether the process has         *)
(* panicked, and the last call made on the writer (its name, arguments     *)
(* and return value), and a history of the writer: generic_requests, the   *)
(* number of add_generic_gate calls that passed the padding.               *)
(***************************************************************************)
VARIABLES next_variable, witness_vars, gates, rows_of_vars, wiring,
          cached_constants, public_input_size, public_output,
          private_input_indices, pending_generic_gate,
          double_generic_gate_optimization, finalized, constants,
          generic_requests, panicked, last,
          program, pc, fn_env, err, returned, trace, checked

\* the state of a compilation: the program, how far its compilation is, the
\* FnEnv of main, the error and the value compile_main_function ended with,
\* the history of the statements compiled, and whether the build checks
\* integer overflow
compilation == << program, pc, fn_env, err, returned, trace, checked >>

vars == << next_variable, witness_vars, gates, rows_of_vars, wiring,
           cached_constants, public_input_size, public_output,
           private_input_indices, pending_generic_gate,
           double_generic_gate_optimization, finalized, constants,
           generic_requests, panicked, last, program, pc, fn_env, err, returned, trace, checked >>

Writer ==
    [ next_variable |-> next_variable,
      witness_vars |-> witness_vars,
      gates |-> gates,
      rows_of_vars |-> rows_of_vars,
      wiring |-> wiring,
      cached_constants |-> cached_constants,
      public_input_size |-> public_input_size,
      public_output |-> public_output,
      private_input_indices |-> private_input_indices,
      pending_generic_gate |-> pending_generic_gate,
      double_generic_gate_optimization |-> double_generic_gate_optimization,
      finalized |-> finalized,
      constants |-> constants,
      generic_requests |-> generic_requests,
      panic |-> panicked ]

SetWriter(w) ==
    /\ next_variable' = w.next_variable
    /\ witness_vars' = w.witness_vars
    /\ gates' = w.gates
    /\ rows_of_vars' = w.rows_of_vars
    /\ wiring' = w.wiring
    /\ cached_constants' = w.cached_constants
    /\ public_input_size' = w.public_input_size
    /\ public_output' = w.public_output
    /\ private_input_indices' = w.private_input_indices
    /\ pending_generic_gate' = w.pending_generic_gate
    /\ double_generic_gate_optimization' = w.double_generic_gate_optimization
    /\ finalized' = w.finalized
    /\ constants' = w.constants
    /\ generic_requests' = w.generic_requests
    /\ panicked' = w.panic

\* the record of a call: which operation, with which arguments, returning what
Call(op, name, num, value, slots, ret) ==
    [op |-> op, name |-> name, num |-> num, value |-> value, slots |-> slots, ret |-> ret]

InitWriter ==
    /\ next_variable = NewWriter.next_variable
    /\ witness_vars = NewWriter.witness_vars
    /\ gates = NewWriter.gates
    /\ rows_of_vars = NewWriter.rows_of_vars
    /\ wiring = NewWriter.wiring
    /\ cached_constants = NewWriter.cached_constants
    /\ public_input_size = NewWriter.public_input_size
    /\ public_output = NewWriter.public_output
    /\ private_input_indices = NewWriter.private_input_indices
    /\ pending_generic_gate = NewWriter.pending_generic_gate
    /\ double_generic_gate_optimization = NewWriter.double_generic_gate_optimization
    /\ finalized = NewWriter.finalized
    /\ constants = NewWriter.constants
    /\ generic_requests = NewWriter.generic_requests
    /\ panicked = NewWriter.panic
    /\ last = Call("new", "", 0, 0, <<>>, <<>>)

\* the writer alone: its operations are called in any order
Init ==
    /\ InitWriter
    /\ program = NoProgram
    /\ pc = "writer"
    /\ fn_env = <<>>
    /\ err = NoErr
    /\ returned = None
    /\ trace = <<>>
    /\ checked = TRUE

\* the wires allocated so far
Wires == 0..(next_variable - 1)

\* a call is made only while the process runs, and within the model's bounds
Running == ~panicked
RoomFor(nwires, nrows) ==
    /\ next_variable + nwires <= MaxWires
    /\ Len(gates) + nrows <= MaxGates

\* the values given to new_internal_var by the built-in operations
InternalValues == {ValueConstant(FieldOne)}

NewInternalVar(val) ==
    /\ Running /\ RoomFor(1, 0)
    /\ LET r == new_internal_var(Writer, val)
       IN  /\ SetWriter(r.w)
           /\ last' = Call("new_internal_var", "", 0, 0, <<>>, <<r.ret>>)
           /\ UNCHANGED compilation

\* the values and the labels add_constant is called with
ConstantValues == {FieldZero, FieldOne, Neg(FieldOne)}
ConstantLabels == {None, Some("constant")}

AddConstant(label, value) ==
    /\ Running
    /\ value \in DOMAIN cached_constants \/ RoomFor(1, 1)
    /\ LET r == add_constant(Writer, label, value)
       IN  /\ SetWriter(r.w)
           /\ last' = Call("add_constant", "", 0, value, <<>>, <<r.ret>>)
           /\ UNCHANGED compilation

\* the wire slots given to add_gate: a wire twice, or an empty slot and a wire,
\* or more slots than the register width
GateSlots ==
    {<<Some(a), Some(a)>> : a \in Wires}
        \cup {<<None, Some(a)>> : a \in Wires}
        \cup {Repeat(None, NUM_REGISTERS + 1)}

\* the coefficients given to add_gate: one, or more than the register width
GateCoeffs == {<<FieldOne>>, Repeat(FieldZero, NUM_REGISTERS + 1)}

AddGate(slots, coeffs) ==
    /\ Running /\ RoomFor(0, 1)
    /\ SetWriter(add_gate(Writer, "poseidon", "Poseidon", slots, coeffs))
    /\ last' = Call("add_gate", "", 0, coeffs, slots, <<>>)
    /\ UNCHANGED compilation

\* the wire slots given to add_generic_gate: one wire, or more slots than
\* the generic register width
GenericSlots ==
    {<<Some(a)>> : a \in Wires} \cup {Repeat(None, GENERIC_REGISTERS + 1)}

\* the coefficients given to add_generic_gate: two, or more than the
\* coefficient width
GenericCoeffs == {<<FieldOne, FieldOne>>, Repeat(FieldOne, GENERIC_COEFFS + 1)}

AddGenericGate(slots, coeffs) ==
    /\ Running /\ RoomFor(0, 1)
    /\ SetWriter(add_generic_gate(Writer, "generic", slots, coeffs))
    /\ last' = Call("add_generic_gate", "", 0, coeffs, slots, <<>>)
    /\ UNCHANGED compilation

AddPublicInputs(name, num) ==
    /\ Running /\ RoomFor(num, num)
    /\ LET r == add_public_inputs(Writer, name, num)
       IN  /\ SetWriter(r.w)
           /\ last' = Call("add_public_inputs", name, num, 0, <<>>, r.ret)
           /\ UNCHANGED compilation

AddPublicOutputs(num) ==
    /\ Running
    /\ public_output # None \/ RoomFor(num, num)
    /\ SetWriter(add_public_outputs(Writer, num))
    /\ last' = Call("add_public_outputs", "", num, 0, <<>>, <<>>)
    /\ UNCHANGED compilation

AddPrivateInputs(name, num) ==
    /\ Running /\ RoomFor(num, 0)
    /\ LET r == add_private_inputs(Writer, name, num)
       IN  /\ SetWriter(r.w)
           /\ last' = Call("add_private_inputs", name, num, 0, <<>>, r.ret)
           /\ UNCHANGED compilation

CompiledGates ==
    /\ Running
    /\ LET r == compiled_gates(Writer)
       IN  /\ SetWriter(r.w)
           /\ last' = Call("compiled_gates", "", 0, 0, <<>>, r.ret)
           /\ UNCHANGED compilation

Next ==
    \/ CompiledGates
    \/ \E val \in InternalValues : NewInternalVar(val)
    \/ \E label \in ConstantLabels, value \in ConstantValues : AddConstant(label, value)
    \/ \E slots \in GateSlots, coeffs \in GateCoeffs : AddGate(slots, coeffs)
    \/ \E slots \in GenericSlots, coeffs \in GenericCoeffs : AddGenericGate(slots, coeffs)
    \/ \E name \in PublicNames, num \in 0..MaxNum : AddPublicInputs(name, num)
    \/ \E num \in 0..MaxNum : AddPublicOutputs(num)
    \/ \E name \in PrivateNames, num \in 0..MaxNum : AddPrivateInputs(name, num)

Spec == Init /\ [][Next]_vars

(***************************************************************************)
(* The writer with the coalescing optimization switched on by its owner    *)
(* after new: the requests for generic gates are then paired.              *)
(***************************************************************************)
InitCoalesce ==
    /\ next_variable = NewWriter.next_variable
    /\ witness_vars = NewWriter.witness_vars
    /\ gates = NewWriter.gates
    /\ rows_of_vars = NewWriter.rows_of_vars
    /\ wiring = NewWriter.wiring
    /\ cached_constants = NewWriter.cached_constants
    /\ public_input_size = NewWriter.public_input_size
    /\ public_output = NewWriter.public_output
    /\ private_input_indices = NewWriter.private_input_indices
    /\ pending_generic_gate = NewWriter.pending_generic_gate
    /\ double_generic_gate_optimization = TRUE
    /\ finalized = NewWriter.finalized
    /\ constants = NewWriter.constants
    /\ generic_requests = NewWriter.generic_requests
    /\ panicked = NewWriter.panic
    /\ last = Call("new", "", 0, 0, <<>>, <<>>)
    /\ program = NoProgram
    /\ pc = "writer"
    /\ fn_env = <<>>
    /\ err = NoErr
    /\ returned = None
    /\ trace = <<>>
    /\ checked = TRUE

NextCoalesce ==
    \/ \E val \in InternalValues : NewInternalVar(val)
    \/ \E slots \in GenericSlots, coeffs \in GenericCoeffs : AddGenericGate(slots, coeffs)
    \/ \E label \in ConstantLabels, value \in ConstantValues : AddConstant(label, value)
    \/ \E name \in PublicNames, num \in 0..MaxNum : AddPublicInputs(name, num)
    \/ \E num \in 0..MaxNum : AddPublicOutputs(num)

SpecCoalesce == InitCoalesce /\ [][NextCoalesce]_vars

(***************************************************************************)
(* Compiling a program: the named constants are added, main's arguments    *)
(* and its output are declared, and main is compiled.                       *)
(***************************************************************************)
InitCompile ==
    /\ InitWriter
    /\ program \in Programs
    /\ pc = "constants"
    /\ fn_env = <<>>
    /\ err = NoErr
    /\ returned = None
    /\ trace = <<>>
    /\ checked \in BOOLEAN

\* the named constants added so far
ConstantsAdded == Cardinality(DOMAIN constants)

AddConstantVar ==
    /\ Running /\ pc = "constants"
    /\ ConstantsAdded < Len(program.constants)
    /\ LET c == program.constants[ConstantsAdded + 1]
       IN  /\ SetWriter(add_constant_var(Writer, c.name, c.value))
           /\ last' = Call("add_constant_var", c.name, 0, c.value, <<>>, <<>>)
    /\ UNCHANGED compilation

\* argument arg of main, its wires allocated by r: the inputs are
\* constrained to their type and bound to the argument's name
declare_argument(s, arg, r) ==
    add_var([s EXCEPT !.w = constrain_inputs_to_main(r.w, r.ret, arg.typ)],
            arg.name, VarInfo(r.ret, FALSE, Some(arg.typ)))

\* the `for arg in function.sig.arguments` loop: a public argument is a
\* public input, any other a private input
RECURSIVE declare_arguments(_, _, _)
declare_arguments(s, arguments, i) ==
    IF Failed(s) \/ i > Len(arguments) THEN s
    ELSE declare_arguments(
             declare_argument(s, arguments[i],
                 IF arguments[i].public
                 THEN add_public_inputs(s.w, arguments[i].name, size_of(arguments[i].typ))
                 ELSE add_private_inputs(s.w, arguments[i].name, size_of(arguments[i].typ))),
             arguments, i + 1)

\* a declared return type gets its public output wires
declare_output(s, return_type) ==
    IF return_type = None THEN s
    ELSE [s EXCEPT !.w = add_public_outputs(@, size_of(return_type[1]))]

\* the state after a step of the compilation that ended as r
SetCompiled(r, to) ==
    /\ SetWriter(r.s.w)
    /\ fn_env' = r.s.env
    /\ err' = r.s.err
    /\ returned' = r.res
    /\ trace' = r.s.trace
    /\ pc' = to
    /\ UNCHANGED <<program, checked>>

\* the FnEnv of main is created from the named constants; the arguments
\* and the output are declared
DeclareMain ==
    /\ Running /\ pc = "constants"
    /\ ConstantsAdded = Len(program.constants)
    /\ SetCompiled(
           R(declare_output(
                 declare_arguments(
                     CompilerState(Writer, FnEnv_new(constants), checked),
                     program.main.sig.arguments, 1),
                 program.main.sig.return_type),
             None),
           "main")
    /\ last' = Call("declare_main", "", 0, 0, <<>>, <<>>)

CompileMainFunction ==
    /\ Running /\ pc = "main"
    /\ SetCompiled(
           compile_main_function(CompilerState(Writer, fn_env, checked), program.main),
           "done")
    /\ last' = Call("compile_main_function", "", 0, 0, <<>>, <<>>)

NextCompile ==
    \/ AddConstantVar
    \/ DeclareMain
    \/ CompileMainFunction

SpecCompile == InitCompile /\ [][NextCompile]_vars

(***************************************************************************)
(* C1.  Constant memoization.                                               *)
(***************************************************************************)
\* the notes add_constant gives its gates
ConstantNotes == {ConstantLabel(label) : label \in ConstantLabels}
\* the rows emitted by add_constant
ConstantRows == {r \in 1..Len(gates) : gates[r].note \in ConstantNotes}
\* the rows that hard-code value v on its cached wire
HardcodeRows(v) ==
    {r \in ConstantRows :
        /\ gates[r].coeffs = <<1, 0, 0, 0, Neg(v)>>
        /\ rows_of_vars[r] = <<Some(cached_constants[v]), None, None>>}

C1_State ==
    /\ \A v \in DOMAIN cached_constants :
          /\ Cardinality(HardcodeRows(v)) = 1
          /\ cached_constants[v] \in DOMAIN witness_vars
          /\ witness_vars[cached_constants[v]] = ValueConstant(v)
    /\ Cardinality(ConstantRows) = Cardinality(DOMAIN cached_constants)
    /\ \A u, v \in DOMAIN cached_constants :
          u # v => cached_constants[u] # cached_constants[v]
    /\ last.op = "add_constant" =>
          /\ last.value \in DOMAIN cached_constants
          /\ last.ret = <<cached_constants[last.value]>>

C1_Step ==
    \A v \in DOMAIN cached_constants :
        /\ v \in DOMAIN cached_constants'
        /\ cached_constants'[v] = cached_constants[v]

\* C1: add_constant returns the cached wire of its value, which never
\* changes; every cached value has one wire of its own and exactly one
\* hard-coding gate [1,0,0,0,-value] on that wire, and add_constant emits
\* no other gate.
C1_ConstantMemoization == [](C1_State) /\ [][C1_Step]_vars

\* a call that hit the cache while two values are cached
C1_Witness ==
    /\ last.op = "add_constant"
    /\ last.ret # <<next_variable - 1>>
    /\ Cardinality(DOMAIN cached_constants) = 2

(***************************************************************************)
(* C2.  Wiring.                                                             *)
(***************************************************************************)
\* the cells of the emitted rows that hold wire w, from (row r, column c) on,
\* in emission order
RECURSIVE CellsFrom(_, _, _)
CellsFrom(w, r, c) ==
    IF r > Len(rows_of_vars) THEN <<>>
    ELSE IF c > Len(rows_of_vars[r]) THEN CellsFrom(w, r + 1, 1)
    ELSE (IF rows_of_vars[r][c] = Some(w) THEN <<GridCell(r - 1, c - 1)>> ELSE <<>>)
            \o CellsFrom(w, r, c + 1)
CellsOf(w) == CellsFrom(w, 1, 1)

\* C2: a wire in two or more cells is Wired with exactly those cells in
\* emission order, a wire in one cell is NotWired(that cell), a wire in no
\* cell has no wiring entry.
C2_WiringListsCells ==
    /\ DOMAIN wiring \subseteq Wires
    /\ \A w \in Wires :
          LET cells == CellsOf(w)
          IN  /\ Len(cells) >= 2 => w \in DOMAIN wiring /\ wiring[w] = Wired(cells)
              /\ Len(cells) = 1 => w \in DOMAIN wiring /\ wiring[w] = NotWired(cells[1])
              /\ Len(cells) = 0 => w \notin DOMAIN wiring

\* a wire in three cells, two of them in one row, beside a wire in no cell
C2_Witness ==
    /\ \E w \in DOMAIN wiring :
          /\ wiring[w].tag = "Wired"
          /\ Len(wiring[w].cells) >= 3
          /\ \E i, j \in 1..Len(wiring[w].cells) :
                i # j /\ wiring[w].cells[i].row = wiring[w].cells[j].row
    /\ \E w \in Wires : w \notin DOMAIN wiring

(***************************************************************************)
(* C3.  The value main returns is bound to the public output wires.         *)
(***************************************************************************)
AllCells(cvars) == \A k \in 1..Len(cvars) : cvars[k].tag = "Cell"

\* C3: when main declares a return type and its block returns a Var made of
\* wires only, compile_main_function succeeds and the i-th public output
\* wire holds PublicOutput(Some(i-th returned wire)), for every i, and no
\* other wire holds a PublicOutput; when a returned component is a
\* constant, it fails with ConstantInOutput.
C3_MainOutput ==
    (pc = "done" /\ program.main.sig.return_type # None /\ returned # None) =>
        IF AllCells(returned[1])
        THEN /\ ~panicked
             /\ err = NoErr
             /\ Len(public_output[1]) = Len(returned[1])
             /\ \A i \in 1..Len(returned[1]) :
                   witness_vars[public_output[1][i].v]
                       = ValuePublicOutput(Some(returned[1][i].v))
             /\ \A v \in DOMAIN witness_vars :
                   witness_vars[v].tag = "PublicOutput"
                       => \E i \in 1..Len(public_output[1]) : public_output[1][i].v = v
        ELSE ~panicked /\ err = Err("ConstantInOutput", 0, 0)

\* main returned two wires, the second allocated before the first
C3_Witness ==
    /\ pc = "done" /\ err = NoErr /\ ~panicked
    /\ returned # None
    /\ Len(returned[1]) = 2
    /\ AllCells(returned[1])
    /\ returned[1][1].v > returned[1][2].v
    /\ witness_vars[public_output[1][2].v] = ValuePublicOutput(Some(returned[1][2].v))

(***************************************************************************)
(* C4.  A ForLoop statement.                                                *)
(***************************************************************************)
\* the events of the history that enter the statement stmt
Entries(stmt) == SelectSeq(trace, LAMBDA ev : ev.phase = "enter" /\ ev.what = stmt)
Exits(stmt) == SelectSeq(trace, LAMBDA ev : ev.phase = "exit" /\ ev.what = stmt)

\* the number of values of the range of a ForLoop statement
TripCount(loop) ==
    IF loop.range.end > loop.range.start THEN loop.range.end - loop.range.start ELSE 0

\* C4: a ForLoop over n values compiles its body n times, in range order,
\* the k-th time with the loop variable bound to the k-th value as a
\* constant; after the loop the FnEnv is the FnEnv before the loop and the
\* loop variable is not bound.  This holds for every body, one with a
\* Return included.
C4_LoopUnrolling ==
    (pc = "done" /\ program \in LoopPrograms) =>
        LET loop == program.main.body[1]
            n == TripCount(loop)
            bodies == Entries(loop.body[1])
        IN  /\ ~panicked
            /\ err = NoErr
            /\ Len(bodies) = n
            /\ \A k \in 1..Len(bodies) :
                  /\ is_bound(bodies[k].env, loop.var)
                  /\ get_var(bodies[k].env, loop.var)
                        = VarInfo(new_constant(loop.range.start + k - 1), FALSE,
                                  Some(TyField))
            /\ Len(Entries(loop)) = 1
            /\ Len(Exits(loop)) = 1
            /\ Exits(loop)[1].env = Entries(loop)[1].env
            /\ ~is_bound(Exits(loop)[1].env, loop.var)

(***************************************************************************)
(* C5.  No name is bound twice in the active stack.                         *)
(***************************************************************************)
NoDoubleBinding(env) ==
    \A i, j \in 1..Len(env) : i # j => DOMAIN env[i] \cap DOMAIN env[j] = {}

\* an Assign, a loop or a call is about to bind a name that is bound
BindsBoundName(ev) ==
    \/ /\ ev.phase = "enter" /\ ev.what.kind = "Assign"
       /\ is_bound(ev.env, ev.what.lhs)
    \/ /\ ev.phase = "enter" /\ ev.what.kind = "ForLoop"
       /\ TripCount(ev.what) > 0
       /\ is_bound(ev.env, ev.what.var)
    \/ /\ ev.phase = "call"
       /\ \E k \in 1..Len(ev.what.sig.arguments) :
             ev.what.sig.arguments[k].name \in DOMAIN constants

\* C5: binding a name by an Assign, a loop variable or a function parameter
\* fails when the name is bound in any frame of the active stack, the
\* frames of enclosing blocks and the named constants included; a name an
\* Assign binds is bound in the innermost frame; no name is bound in two
\* frames of the active stack.
C5_NoShadowing ==
    /\ NoDoubleBinding(fn_env)
    /\ (pc \in {"main", "done"}
          /\ \E k \in 1..Len(program.main.sig.arguments) :
                program.main.sig.arguments[k].name \in DOMAIN constants)
         => panicked
    /\ \A k \in 1..Len(trace) :
          /\ NoDoubleBinding(trace[k].env)
          /\ BindsBoundName(trace[k]) => panicked
          /\ (trace[k].phase = "exit" /\ trace[k].what.kind = "Assign")
                => trace[k].what.lhs \in DOMAIN trace[k].env[Len(trace[k].env)]

\* an Assign in a loop's body failed on a name bound in main's first frame
C5_Witness ==
    /\ pc = "done" /\ panicked
    /\ \E k \in 1..Len(trace) :
          /\ trace[k].phase = "enter" /\ trace[k].what.kind = "Assign"
          /\ Len(trace[k].env) >= 3
          /\ trace[k].what.lhs \in DOMAIN trace[k].env[1]

(***************************************************************************)
(* C6.  Indexing an array.                                                  *)
(***************************************************************************)
\* the compile-time constant an index expression denotes in env, if any
IndexConstant(env, idx) ==
    IF idx.kind = "BigInt" THEN Some(idx.value)
    ELSE IF /\ idx.kind = "Variable"
            /\ is_bound(env, idx.name)
            /\ ~get_var(env, idx.name).mutable
            /\ Len(get_var(env, idx.name).var) = 1
            /\ get_var(env, idx.name).var[1].tag = "Const"
      THEN Some(get_var(env, idx.name).var[1].v)
    ELSE None

\* the statement entered at event k is `let lhs = a[idx]` for a variable a
IndexesArray(k) ==
    /\ trace[k].phase = "enter" /\ trace[k].what.kind = "Assign"
    /\ trace[k].what.rhs.kind = "ArrayAccess"
    /\ trace[k].what.rhs.array.kind = "Variable"

\* the statement entered at event k ended with its name bound to cvars
BoundTo(k, cvars) ==
    /\ ~panicked /\ err = NoErr
    /\ k < Len(trace)
    /\ trace[k + 1] = Event(trace[k].what, "exit", trace[k + 1].env)
    /\ is_bound(trace[k + 1].env, trace[k].what.lhs)
    /\ get_var(trace[k + 1].env, trace[k].what.lhs).var = cvars

\* C6: indexing an array of declared length n >= 1 with a constant index i
\* fails with ArrayIndexOutOfBounds(i, n - 1) if i >= n; if i < n and the
\* storage holds at least (i + 1) * s cells, s the size of an element, it
\* yields the cells i * s .. i * s + s - 1 of the storage; an index that is
\* not a constant fails with ExpectedConstant.
C6_ArrayIndex ==
    \A k \in 1..Len(trace) :
        (IndexesArray(k) /\ trace[k].what.rhs.array.typ[1].len >= 1) =>
            LET acc == trace[k].what.rhs
                n == acc.array.typ[1].len
                s == size_of(acc.array.typ[1].elem)
                storage == get_var(trace[k].env, acc.array.name).var
                i == IndexConstant(trace[k].env, acc.idx)
            IN  IF i = None
                  THEN ~panicked /\ err = Err("ExpectedConstant", 0, 0)
                ELSE IF i[1] >= n
                  THEN ~panicked /\ err = Err("ArrayIndexOutOfBounds", i[1], n - 1)
                ELSE Len(storage) >= (i[1] + 1) * s
                        => BoundTo(k, range(storage, i[1] * s, s))

(***************************************************************************)
(* C7.  Field access.                                                       *)
(***************************************************************************)
\* start and length of each field, from the declarations of Thing and Pair
DeclaredRange ==
    [ Thing |-> [f1 |-> <<0, 1>>, f2 |-> <<1, 2>>],
      Pair |-> [a |-> <<0, 3>>, b |-> <<3, 1>>] ]

\* every field named by the access is a declared field
RECURSIVE Declared(_)
Declared(expr) ==
    expr.kind = "FieldAccess" =>
        /\ expr.rhs \in DOMAIN DeclaredRange[expr.lhs.typ[1].name]
        /\ Declared(expr.lhs)

\* the cells the access denotes by the declarations
RECURSIVE DeclaredCells(_, _)
DeclaredCells(env, expr) ==
    IF expr.kind = "Variable" THEN get_var(env, expr.name).var
    ELSE LET r == DeclaredRange[expr.lhs.typ[1].name][expr.rhs]
         IN  range(DeclaredCells(env, expr.lhs), r[1], r[2])

\* C7: a field access narrows its base to start = the sum of the sizes of
\* the fields declared before the field and length = the size of the
\* field (f2 of f1: Field, f2: [Field; 2] is at 1, of length 2), whatever
\* the writer did before.
C7_FieldAccess ==
    \A k \in 1..Len(trace) :
        (/\ trace[k].phase = "enter" /\ trace[k].what.kind = "Assign"
         /\ trace[k].what.rhs.kind = "FieldAccess"
         /\ Declared(trace[k].what.rhs))
            => BoundTo(k, DeclaredCells(trace[k].env, trace[k].what.rhs))

\* f2 of the Thing in a mutable Pair was read after a gate of the preamble
C7_Witness ==
    /\ pc = "done" /\ ~panicked /\ err = NoErr
    /\ Len(gates) >= 3
    /\ \E k \in 1..Len(trace) :
          /\ trace[k].phase = "exit" /\ trace[k].what.kind = "Assign"
          /\ trace[k].what.rhs.kind = "FieldAccess"
          /\ trace[k].what.rhs.rhs = "f2"
          /\ trace[k].what.rhs.lhs.kind = "FieldAccess"
          /\ get_var(trace[k].env, "t").mutable
          /\ get_var(trace[k].env, trace[k].what.lhs).var = <<Const(1), Const(2)>>

(***************************************************************************)
(* C8.  add_public_outputs.                                                 *)
(***************************************************************************)
\* the writer's fields that a failed call leaves alone
WriterFields ==
    << next_variable, witness_vars, gates, rows_of_vars, wiring,
       cached_constants, public_input_size, public_output,
       private_input_indices, pending_generic_gate,
       double_generic_gate_optimization, finalized, constants >>

C8_Step ==
    last'.op = "add_public_outputs" =>
        LET num == last'.num
        IN  IF public_output = None
            THEN /\ ~panicked'
                 /\ next_variable' = next_variable + num
                 /\ Len(gates') = Len(gates) + num
                 /\ SubSeq(gates', 1, Len(gates)) = gates
                 /\ \A k \in 0..(num - 1) :
                       /\ witness_vars'[next_variable + k] = ValuePublicOutput(None)
                       /\ gates'[Len(gates) + k + 1].typ = "DoubleGeneric"
                       /\ gates'[Len(gates) + k + 1].coeffs = <<1, 0, 0, 0, 0>>
                       /\ rows_of_vars'[Len(gates) + k + 1]
                              = <<Some(next_variable + k), None, None>>
                 /\ public_output' = Some([k \in 1..num |-> Cell(next_variable + k - 1)])
            ELSE /\ panicked'
                 /\ WriterFields' = WriterFields

\* C8: the first add_public_outputs(count) allocates count wires bound to
\* PublicOutput(None), one pass-through gate each, and records them; any
\* later call fails and changes nothing, whatever the counts.
C8_PublicOutputsOnce == [][C8_Step]_vars

\* a second call failed after a first call with count 0
C8_Witness ==
    /\ panicked
    /\ last.op = "add_public_outputs"
    /\ public_output = Some(<<>>)

(***************************************************************************)
(* C9.  add_public_inputs.                                                  *)
(***************************************************************************)
C9_Step ==
    last'.op = "add_public_inputs" =>
        LET num == last'.num
        IN  /\ ~panicked'
            /\ next_variable' = next_variable + num
            /\ Len(gates') = Len(gates) + num
            /\ SubSeq(gates', 1, Len(gates)) = gates
            /\ \A k \in 0..(num - 1) :
                  /\ witness_vars'[next_variable + k] = ValueExternal(last'.name, k)
                  /\ gates'[Len(gates) + k + 1].typ = "DoubleGeneric"
                  /\ gates'[Len(gates) + k + 1].coeffs = <<1>>
                  /\ rows_of_vars'[Len(gates) + k + 1] = <<Some(next_variable + k)>>
            /\ public_input_size' = public_input_size + num
            /\ last'.ret = [k \in 1..num |-> Cell(next_variable + k - 1)]

\* C9: add_public_inputs(name, count) allocates count wires bound to
\* External(name, 0..count-1) in ascending order, appends one gate with
\* coefficient 1 and that wire alone in column 0 for each, adds count to
\* public_input_size and returns the wires in order.
C9_PublicInputs == [][C9_Step]_vars

\* a call with count 2, and a call made when a wire and a row existed
C9_Witness ==
    /\ last.op = "add_public_inputs"
    /\ \/ last.num = 2
       \/ last.num = 1 /\ next_variable = 2 /\ Len(gates) = 2

(***************************************************************************)
(* C10.  add_private_inputs.                                                *)
(***************************************************************************)
C10_Step ==
    last'.op = "add_private_inputs" =>
        LET num == last'.num
        IN  /\ ~panicked'
            /\ next_variable' = next_variable + num
            /\ \A k \in 0..(num - 1) :
                  witness_vars'[next_variable + k] = ValueExternal(last'.name, k)
            /\ private_input_indices'
                  = private_input_indices \o [k \in 1..num |-> next_variable + k - 1]
            /\ last'.ret = [k \in 1..num |-> Cell(next_variable + k - 1)]
            /\ UNCHANGED << gates, rows_of_vars, wiring, pending_generic_gate,
                            cached_constants, public_input_size >>

\* C10: add_private_inputs(name, count) allocates count wires bound to
\* External(name, idx) in ascending order and appends their indices to the
\* private-input list; gates, wiring, pending gate, constant cache and
\* public_input_size are unchanged.
C10_PrivateInputs == [][C10_Step]_vars

\* a call with count >= 1 made when a row and a cached constant existed
C10_Witness ==
    /\ last.op = "add_private_inputs"
    /\ last.num >= 1
    /\ Len(gates) >= 1
    /\ DOMAIN cached_constants # {}

(***************************************************************************)
(* C11.  Wire allocation.                                                   *)
(***************************************************************************)
\* the wire-to-Value map is defined on exactly the wires allocated
C11_State == DOMAIN witness_vars = 0..(next_variable - 1)

\* a step allocates the next indices only and rebinds no wire, but for a
\* public output wire that gets the wire it outputs
C11_Step ==
    /\ next_variable' >= next_variable
    /\ \A v \in DOMAIN witness_vars :
          \/ witness_vars'[v] = witness_vars[v]
          \/ /\ witness_vars[v] = ValuePublicOutput(None)
             /\ witness_vars'[v].tag = "PublicOutput"
             /\ witness_vars'[v].wire # None

\* C11: wires are allocated densely in increasing order: the wire-to-Value
\* map is defined on exactly 0..next_variable-1 in every state, a step only
\* adds the next indices, and the Value of a wire never changes, except
\* that PublicOutput(None) may become PublicOutput(Some(wire)) once.
C11_WireAllocation == [](C11_State) /\ [][C11_Step]_vars

\* main was compiled: inputs, a constant and an output were allocated, and
\* the output wire was rebound
C11_Witness ==
    /\ pc = "done" /\ ~panicked
    /\ next_variable >= 3
    /\ \E v \in DOMAIN witness_vars : witness_vars[v].tag = "Constant"
    /\ \E v \in DOMAIN witness_vars : witness_vars[v].tag = "External"
    /\ \E v \in DOMAIN witness_vars :
          witness_vars[v].tag = "PublicOutput" /\ witness_vars[v].wire # None


(***************************************************************************)
(* C12                                                                     *)
(***************************************************************************)
\* the two row lists describe the same rows
C12_State == Len(rows_of_vars) = Len(gates)

\* the rows of before the step are the first rows after it
RowsKept ==
    /\ Len(gates') >= Len(gates)
    /\ Len(rows_of_vars') >= Len(rows_of_vars)
    /\ \A r \in 1..Len(gates) : gates'[r] = gates[r]
    /\ \A r \in 1..Len(rows_of_vars) : rows_of_vars'[r] = rows_of_vars[r]

C12_Step ==
    /\ RowsKept
    /\ last'.op = "add_gate" =>
          IF Len(last'.value) <= NUM_REGISTERS /\ Len(last'.slots) <= NUM_REGISTERS
          THEN /\ ~panicked'
               /\ Len(gates') = Len(gates) + 1
               /\ gates'[Len(gates) + 1] = Gate("Poseidon", last'.value, "poseidon")
               /\ rows_of_vars' = Append(rows_of_vars, last'.slots)
          ELSE /\ panicked'
               /\ gates' = gates
               /\ rows_of_vars' = rows_of_vars

\* C12: add_gate appends exactly one row, at the index that was the number
\* of gates, when its coefficients and its wire slots are each at most
\* NUM_REGISTERS long, and otherwise fails and appends nothing; no operation
\* removes, reorders or modifies a row already emitted; rows_of_vars and
\* gates always have the same length, row r of one describing row r of the
\* other.
C12_AddGateAppends == [](C12_State) /\ [][C12_Step]_vars

\* a row was appended at index 0, and then a call with too many coefficients
\* has failed
C12_Witness ==
    /\ last.op = "add_gate"
    /\ panicked
    /\ Len(last.value) > NUM_REGISTERS
    /\ Len(last.slots) <= NUM_REGISTERS
    /\ Len(gates) = 1
    /\ gates[1].typ = "Poseidon"
    /\ rows_of_vars[1] = <<None, Some(0)>>


(***************************************************************************)
(* C14                                                                     *)
(***************************************************************************)
\* seq right-padded with x to length n
PaddedTo(seq, x, n) == seq \o [i \in 1..(n - Len(seq)) |-> x]

C14_State ==
    /\ ~double_generic_gate_optimization
    /\ pending_generic_gate = None

C14_Step ==
    last'.op = "add_generic_gate" =>
        IF Len(last'.value) <= GENERIC_COEFFS /\ Len(last'.slots) <= GENERIC_REGISTERS
        THEN /\ ~panicked'
             /\ gates' = Append(gates,
                    Gate("DoubleGeneric",
                         PaddedTo(last'.value, FieldZero, GENERIC_COEFFS), "generic"))
             /\ rows_of_vars' = Append(rows_of_vars,
                    PaddedTo(last'.slots, None, GENERIC_REGISTERS))
        ELSE /\ panicked'
             /\ WriterFields' = WriterFields

\* C14: a writer made by new has the coalescing optimization off and keeps
\* it off; each add_generic_gate call then appends exactly one generic row,
\* its coefficients the given ones right-padded with zero to GENERIC_COEFFS
\* and its slots the given ones right-padded with None to GENERIC_REGISTERS;
\* the pending slot is empty in every reachable state; a request longer
\* than a fixed width fails and emits nothing.
C14_GenericGateUncoalesced == [](C14_State) /\ [][C14_Step]_vars

\* a request of two coefficients and one slot was emitted as a padded row
C14_Witness ==
    /\ last.op = "add_generic_gate"
    /\ ~panicked
    /\ Len(last.value) = 2
    /\ Len(last.slots) = 1
    /\ Len(gates) >= 1
    /\ Len(gates[Len(gates)].coeffs) = GENERIC_COEFFS
    /\ Len(rows_of_vars[Len(gates)]) = GENERIC_REGISTERS


(***************************************************************************)
(* C13                                                                     *)
(***************************************************************************)
\* the cells the wiring records for wire var
WiredCells(w, var) ==
    IF var \in DOMAIN w THEN {w[var].cells[i] : i \in 1..Len(w[var].cells)} ELSE {}

\* the rows emitted for requests to add_generic_gate: all but the rows that
\* add_public_inputs emits through add_gate
RequestRows(g) == {r \in 1..Len(g) : g[r].note # "add public input"}

\* the request add_generic_gate was last called with, padded
RequestCoeffs == PaddedTo(last'.value, FieldZero, GENERIC_COEFFS)
RequestSlots == PaddedTo(last'.slots, None, GENERIC_REGISTERS)

\* the request is stored: no row, no wiring
Stored ==
    /\ pending_generic_gate' = Some(PendingGate("generic", RequestCoeffs, RequestSlots))
    /\ gates' = gates
    /\ rows_of_vars' = rows_of_vars
    /\ wiring' = wiring

\* the request is emitted in one row with the pending one
Merged ==
    /\ pending_generic_gate # None
    /\ pending_generic_gate' = None
    /\ Len(gates') = Len(gates) + 1
    /\ Len(rows_of_vars') = Len(rows_of_vars) + 1
    /\ LET gate == gates'[Len(gates) + 1]
           row == rows_of_vars'[Len(gates) + 1]
           pending == pending_generic_gate[1]
       IN  /\ gate.typ = "DoubleGeneric"
           /\ Len(gate.coeffs) = 2 * GENERIC_COEFFS
           /\ Len(row) = 2 * GENERIC_REGISTERS
           /\ Len(gate.coeffs) <= NUM_REGISTERS
           /\ Len(row) <= NUM_REGISTERS
           /\ gate.coeffs \in {RequestCoeffs \o pending.coeffs,
                               pending.coeffs \o RequestCoeffs}
           /\ row \in {RequestSlots \o pending.vars, pending.vars \o RequestSlots}
           /\ \A col \in 1..Len(row) :
                 row[col] # None =>
                     GridCell(Len(gates), col - 1) \in WiredCells(wiring', row[col][1])

C13_Step ==
    /\ (last'.op = "add_generic_gate" /\ ~panicked') =>
          /\ generic_requests' = generic_requests + 1
          /\ IF generic_requests % 2 = 0 THEN Stored ELSE Merged
    /\ generic_requests' = generic_requests =>
          /\ pending_generic_gate' = pending_generic_gate
          /\ RequestRows(gates') = RequestRows(gates)

C13_State ==
    /\ double_generic_gate_optimization
    /\ generic_requests
           = 2 * Cardinality(RequestRows(gates)) + Len(pending_generic_gate)
    /\ Len(pending_generic_gate) <= 1

\* C13: with the coalescing optimization on, the 1st, 3rd, 5th, ... request
\* to add_generic_gate is stored in the pending slot and emits no row and no
\* wiring; the 2nd, 4th, ... request emits exactly one row that holds the
\* padded coefficients and the padded slots of both requests, within the
\* widths add_gate asserts, records a wiring cell for every wire of both,
\* and empties the pending slot; at most one request is pending, and after
\* 2k requests exactly k rows have been emitted.
C13_Coalescing == [](C13_State) /\ [][C13_Step]_vars

\* a third request waits after the first two were emitted in one row
C13_Witness ==
    /\ double_generic_gate_optimization
    /\ generic_requests = 3
    /\ Len(gates) = 1
    /\ pending_generic_gate # None
    /\ last.op = "add_generic_gate"
    /\ \E col \in 4..6 : rows_of_vars[1][col] # None


(***************************************************************************)
(* C15                                                                     *)
(***************************************************************************)
C15_Step ==
    last'.op = "compiled_gates" =>
        IF finalized
        THEN ~panicked' /\ last'.ret = Some(gates)
        ELSE /\ panicked'
             /\ last'.ret = None
             /\ WriterFields' = WriterFields

\* C15: a writer made by new is not finalized, and no allocation, emission
\* or compilation operation sets finalized; wherever finalized is false,
\* compiled_gates panics and returns nothing.
C15_CompiledGatesGuarded == [](~finalized) /\ [][C15_Step]_vars

\* compiled_gates was called on a writer that holds a gate, and panicked
C15_Witness ==
    /\ last.op = "compiled_gates"
    /\ panicked
    /\ ~finalized
    /\ Len(gates) >= 1


(***************************************************************************)
(* C17                                                                     *)
(***************************************************************************)
\* every wire of before the step is bound to the Value it was bound to
ValuesKept ==
    \A v \in DOMAIN witness_vars :
        v \in DOMAIN witness_vars' /\ witness_vars'[v] = witness_vars[v]

\* the block of main was compiled to its end: the step ended without a
\* panic and with no error, or with an error of the final match
BlockCompiled ==
    /\ pc = "main" /\ pc' = "done"
    /\ ~panicked'
    /\ err'.kind \in {"ok", "MissingReturn", "UnexpectedReturn", "ConstantInOutput"}

C17_Step ==
    BlockCompiled =>
        LET declared == program.main.sig.return_type
        IN  /\ (declared = None /\ returned' = None) =>
                  err'.kind = "ok" /\ ValuesKept
            /\ (declared # None /\ returned' = None) =>
                  err'.kind = "MissingReturn" /\ ValuesKept
            /\ (declared = None /\ returned' # None) =>
                  err'.kind = "UnexpectedReturn" /\ ValuesKept

\* C17: after the block of main, compile_main_function succeeds and changes
\* the Value of no wire when main declares no return type and the block
\* returned nothing; it fails with MissingReturn when a type is declared and
\* nothing was returned, and with UnexpectedReturn when a value was returned
\* and no type is declared, and in both failures the Value of no wire is
\* changed.
C17_ReturnMatch == [][C17_Step]_vars

\* MissingReturn, with the output wire still bound to PublicOutput(None)
C17_Witness ==
    /\ pc = "done"
    /\ err.kind = "MissingReturn"
    /\ public_output # None
    /\ Len(public_output[1]) >= 1
    /\ witness_vars[public_output[1][1].v] = ValuePublicOutput(None)


(***************************************************************************)
(* C18                                                                     *)
(***************************************************************************)
\* the expression of a statement that is a call written as a statement, as
\* the right side of a `let`, or as a returned expression
CallOf(stmt) == IF stmt.kind = "Assign" THEN stmt.rhs ELSE stmt.expr

\* the positions of the history where a statement calls a user-defined
\* function
NativeCalls ==
    { i \in 2..Len(trace) :
        /\ trace[i].phase = "call"
        /\ trace[i - 1].phase = "enter"
        /\ trace[i - 1].what.kind \in {"Assign", "Expr", "Return"}
        /\ CallOf(trace[i - 1].what).kind = "FnCall" }

\* the callee starts in an environment of the named constants alone
FreshEnv(i) == trace[i].env = <<constants>>

\* at its first statement the callee sees the named constants and its
\* parameters, bound to the values of the arguments (compared where the
\* argument is a variable of the caller), and nothing else
CalleeSees(i) ==
    LET function == trace[i].what
        caller == trace[i - 1].env
        args == CallOf(trace[i - 1].what).args
    IN  (/\ i + 1 <= Len(trace)
         /\ trace[i + 1].phase = "enter"
         /\ Len(function.body) >= 1
         /\ trace[i + 1].what = function.body[1])
        => /\ Len(trace[i + 1].env) = 2
           /\ trace[i + 1].env[2] = EmptyMap
           /\ DOMAIN trace[i + 1].env[1]
                 = DOMAIN constants
                     \cup {function.sig.arguments[k].name : k \in 1..Len(args)}
           /\ \A name \in DOMAIN constants :
                 trace[i + 1].env[1][name] = constants[name]
           /\ \A k \in 1..Len(args) :
                 /\ args[k].kind = "Variable"
                       => trace[i + 1].env[1][function.sig.arguments[k].name].var
                             = get_var(caller, args[k].name).var
                 /\ ~trace[i + 1].env[1][function.sig.arguments[k].name].mutable

\* the scope stack after the statement is the one before it, but for the
\* name a `let` binds
SameStack(before, after, stmt) ==
    /\ Len(after) = Len(before)
    /\ \A f \in 1..Len(before) :
          /\ DOMAIN before[f] \subseteq DOMAIN after[f]
          /\ \A name \in DOMAIN before[f] : after[f][name] = before[f][name]
          /\ DOMAIN after[f] \ DOMAIN before[f]
                 \subseteq (IF stmt.kind = "Assign" /\ f = Len(before)
                              THEN {stmt.lhs} ELSE {})

CallerKeeps(i) ==
    \A j \in (i + 1)..Len(trace) :
        (trace[j].phase = "exit" /\ trace[j].what = trace[i - 1].what)
            => SameStack(trace[i - 1].env, trace[j].env, trace[j].what)

\* C18: a call to a user-defined function compiles the callee in a fresh
\* environment that holds only the named constants and the callee's
\* parameters, bound to the values of the arguments; no local binding of the
\* caller is visible in the callee, so the callee may bind a name the caller
\* has bound; after the call the caller's scope stack has the depth and the
\* bindings it had before.
C18_CallFrames ==
    \A i \in NativeCalls : FreshEnv(i) /\ CalleeSees(i) /\ CallerKeeps(i)

\* `let b = x; let c = local(b);` compiled: local bound b while the caller
\* had b bound, and the caller went on with its own stack
C18_Witness ==
    /\ pc = "done" /\ ~panicked /\ err.kind = "ok"
    /\ \E i \in NativeCalls :
          /\ is_bound(trace[i - 1].env, "b")
          /\ \E j \in (i + 1)..Len(trace) :
                /\ trace[j].phase = "exit"
                /\ trace[j].what.kind = "Assign"
                /\ trace[j].what.lhs = "b"
                /\ "b" \in DOMAIN trace[j].env[2]
          /\ \E j \in (i + 1)..Len(trace) :
                /\ trace[j].phase = "exit"
                /\ trace[j].what = trace[i - 1].what
                /\ is_bound(trace[j].env, "c")


(***************************************************************************)
(* C19                                                                     *)
(***************************************************************************)
\* the variable an assignable expression starts from; "" for a literal
RECURSIVE RootOf(_)
RootOf(expr) ==
    CASE expr.kind = "Variable" -> expr.name
      [] expr.kind = "ArrayAccess" -> RootOf(expr.array)
      [] expr.kind = "FieldAccess" -> RootOf(expr.lhs)
      [] OTHER -> ""

\* the index of the first cell the expression denotes in its variable
RECURSIVE StartOf(_)
StartOf(expr) ==
    CASE expr.kind = "ArrayAccess" ->
             StartOf(expr.array) + expr.idx.value * size_of(expr.typ[1])
      [] expr.kind = "FieldAccess" ->
             StartOf(expr.lhs) + DeclaredRange[expr.lhs.typ[1].name][expr.rhs][1]
      [] OTHER -> 0

\* the cells an expression without gates denotes in env
RECURSIVE CellsIn(_, _), ItemCellsIn(_, _, _)
CellsIn(env, expr) ==
    CASE expr.kind = "BigInt" -> <<Const(expr.value)>>
      [] expr.kind = "Variable" -> get_var(env, expr.name).var
      [] expr.kind = "ArrayAccess" ->
             range(CellsIn(env, expr.array),
                   expr.idx.value * size_of(expr.typ[1]), size_of(expr.typ[1]))
      [] expr.kind = "ArrayDeclaration" -> ItemCellsIn(env, expr.items, 1)
ItemCellsIn(env, items, i) ==
    IF i > Len(items) THEN <<>>
    ELSE CellsIn(env, items[i]) \o ItemCellsIn(env, items, i + 1)

\* the positions of the history where an Assignment expression is entered
Assignments ==
    { i \in 1..Len(trace) :
        /\ trace[i].phase = "enter"
        /\ trace[i].what.kind = "Expr"
        /\ trace[i].what.expr.kind = "Assignment" }

\* the left side resolves to a reference: it starts from a mutable variable
ResolvesToRef(env, lhs) ==
    /\ RootOf(lhs) # ""
    /\ get_var(env, RootOf(lhs)).mutable

\* after is before, with the cells start .. start + len of name replaced by
\* cells
Reassigned(before, after, name, start, cells) ==
    /\ Len(after) = Len(before)
    /\ \A f \in 1..Len(before) :
          /\ DOMAIN after[f] = DOMAIN before[f]
          /\ \A n \in DOMAIN before[f] :
                IF n # name THEN after[f][n] = before[f][n]
                ELSE /\ after[f][n].mutable
                     /\ after[f][n].typ = before[f][n].typ
                     /\ Len(after[f][n].var) = Len(before[f][n].var)
                     /\ \A c \in 1..Len(before[f][n].var) :
                           after[f][n].var[c]
                               = IF c > start /\ c <= start + Len(cells)
                                 THEN cells[c - start]
                                 ELSE before[f][n].var[c]

C19_At(i) ==
    LET asg == trace[i].what.expr
        before == trace[i].env
    IN  IF ResolvesToRef(before, asg.lhs)
        THEN /\ i + 1 <= Len(trace)
             /\ trace[i + 1].phase = "exit"
             /\ trace[i + 1].what = trace[i].what
             /\ Len(CellsIn(before, asg.rhs)) = size_of(asg.lhs.typ[1])
             /\ Reassigned(before, trace[i + 1].env, RootOf(asg.lhs),
                           StartOf(asg.lhs), CellsIn(before, asg.rhs))
        ELSE /\ panicked
             /\ Len(trace) = i
             /\ fn_env = before

\* C19: an Assignment whose left side resolves to a reference replaces the
\* cells start .. start + len of the named variable's Var by the Var of the
\* right side and leaves every other cell of the variable and every other
\* binding as it was; it emits no value (the expression statement that holds
\* it is left without a failure); only a mutable binding is referred to.  An
\* Assignment whose left side resolves to a concrete Var fails by a panic and
\* changes no binding.
C19_Assignment == \A i \in Assignments : C19_At(i)

\* `a[0] = a[1]` on `let mut a = [x, 1]`: the first cell was replaced by the
\* constant of the second
C19_Witness ==
    /\ pc = "done" /\ ~panicked
    /\ \E i \in Assignments :
          /\ trace[i].what.expr.lhs.kind = "ArrayAccess"
          /\ trace[i].what.expr.rhs.kind = "ArrayAccess"
          /\ get_var(trace[i].env, "a").var = <<Cell(0), Const(1)>>
          /\ get_var(trace[i + 1].env, "a").var = <<Const(1), Const(1)>>
          /\ get_var(trace[i + 1].env, "b") = get_var(trace[i].env, "b")


(***************************************************************************)
(* C20                                                                     *)
(***************************************************************************)
\* the positions of the history where a method call on a variable or on a
\* type name is entered
MethodCallsEntered ==
    { i \in 1..Len(trace) :
        /\ trace[i].phase = "enter"
        /\ trace[i].what.kind = "Expr"
        /\ trace[i].what.expr.kind = "MethodCall"
        /\ trace[i].what.expr.lhs.kind = "Variable" }

\* the method called at i, and whether its first declared parameter is self
MethodAt(i) ==
    Methods[trace[i].what.expr.lhs.typ[1].name][trace[i].what.expr.method_name]
TakesSelf(function) ==
    Len(function.sig.arguments) >= 1 /\ function.sig.arguments[1].name = "self"

\* the call at i was rejected: the compilation failed in the statement,
\* which called nothing
Rejected(i) == (panicked \/ err.kind # "ok") /\ Len(trace) = i

\* the method called at i was executed with the receiver's value as self
CalledWithSelf(i) ==
    /\ i + 2 <= Len(trace)
    /\ trace[i + 1].phase = "call"
    /\ trace[i + 1].what = MethodAt(i)
    /\ trace[i + 2].phase = "enter"
    /\ "self" \in DOMAIN trace[i + 2].env[1]
    /\ trace[i + 2].env[1]["self"].var
           = get_var(trace[i].env, trace[i].what.expr.lhs.name).var

C20_At(i) ==
    LET receiver == trace[i].what.expr.lhs
    IN  IF TakesSelf(MethodAt(i))
        THEN IF is_type(receiver.name)
               THEN err.kind = "NotAStaticMethod" /\ Len(trace) = i
             ELSE CalledWithSelf(i)
        ELSE ~is_type(receiver.name) => Rejected(i)

\* C20: a method whose first declared parameter is self gets the receiver's
\* value as its first argument, and fails with NotAStaticMethod when the
\* receiver is a bare type name; a method whose first declared parameter is
\* not self, with or without other parameters, is rejected when its receiver
\* evaluates to a value.
C20_MethodReceiver == \A i \in MethodCallsEntered : C20_At(i)


(***************************************************************************)
(* C16                                                                     *)
(***************************************************************************)
\* the notes of the gates an expression emits, in the order of a walk that
\* is left to right and depth first; the gates of a select and of an
\* equality are told by one note, however many they are
RECURSIVE NotesOf(_), NotesOfAll(_, _)
NotesOf(expr) ==
    CASE expr.kind = "BinaryOp" ->
             NotesOf(expr.lhs) \o NotesOf(expr.rhs) \o <<OpLabel[expr.op]>>
      [] expr.kind = "Not" -> NotesOf(expr.b) \o <<"not">>
      [] expr.kind = "IfElse" ->
             NotesOf(expr.cond) \o NotesOf(expr.then_) \o NotesOf(expr.else_)
                 \o <<"if_else">>
      [] expr.kind \in {"ArrayDeclaration", "CustomTypeDeclaration"} ->
             NotesOfAll(expr.items, 1)
      [] expr.kind = "FnCall" ->
             NotesOfAll(expr.args, 1)
                 \o (IF expr.fn_name = "assert_eq" THEN <<"constrain eq">> ELSE <<>>)
      [] expr.kind = "MethodCall" -> NotesOf(expr.lhs) \o NotesOfAll(expr.args, 1)
      [] OTHER -> <<>>
NotesOfAll(exprs, i) ==
    IF i > Len(exprs) THEN <<>> ELSE NotesOf(exprs[i]) \o NotesOfAll(exprs, i + 1)

\* seq with each run of the note of a select, or of an equality, as one note
RECURSIVE Squash(_)
Squash(seq) ==
    IF Len(seq) <= 1 THEN seq
    ELSE IF seq[1] = seq[2] /\ seq[1] \in {"if_else", "equal"} THEN Squash(Tail(seq))
    ELSE <<seq[1]>> \o Squash(Tail(seq))

\* the notes of the gates the step emitted
EmittedNotes == [k \in 1..(Len(gates') - Len(gates)) |-> gates'[Len(gates) + k].note]

\* the expression of a statement
ExprOf(stmt) == IF stmt.kind = "Assign" THEN stmt.rhs ELSE stmt.expr

\* an expression whose every operation has an operand that is not a constant
Ordered(prog) == prog \in OrderPrograms /\ ExprOf(prog.main.body[1]) # Add(BigInt(1), BigInt(2))

C16_Step ==
    (/\ pc = "main" /\ pc' = "done"
     /\ Ordered(program)
     /\ ~panicked' /\ err'.kind = "ok")
        => Squash(EmittedNotes) = NotesOf(ExprOf(program.main.body[1]))

\* C16: gates are emitted in the order their sub-expressions are visited,
\* left to right and depth first: the gates of a binary operation's left
\* operand, then those of its right operand, then its own; the arguments of
\* a call and the items of a literal in written order; a method call's
\* receiver before its arguments; a conditional's condition, then branch
\* and else branch, each once and whatever the condition is, before the
\* gates of the select.
C16_EmissionOrder == [][C16_Step]_vars

\* `if false { [x + x, x * x] } else { [x - x, x - 1] }` was compiled: both
\* branches emitted their gates, then the select its gates
C16_Witness ==
    /\ pc = "done" /\ ~panicked /\ err.kind = "ok"
    /\ program \in OrderPrograms
    /\ ExprOf(program.main.body[1]).kind = "IfElse"
    /\ ExprOf(program.main.body[1]).cond = Bool(FALSE)
    /\ \E r \in 1..Len(gates) :
          /\ r + 4 <= Len(gates)
          /\ gates[r].note = "add" /\ gates[r + 1].note = "mul"
          /\ gates[r + 2].note = "sub" /\ gates[r + 3].note = "sub"
          /\ gates[r + 4].note = "if_else"
          /\ gates[Len(gates)].note = "if_else"

(***************************************************************************)
(* C21                                                                     *)
(***************************************************************************)
\* what the function-resolution oracle finds for a call
Resolved(call) ==
    IF call.module # None
      THEN IF call.module[1] \notin DOMAIN Modules THEN [kind |-> "UndefinedModule"]
           ELSE IF call.fn_name \notin DOMAIN Modules[call.module[1]]
             THEN [kind |-> "UndefinedInModule"]
           ELSE Modules[call.module[1]][call.fn_name]
    ELSE IF call.fn_name \notin DOMAIN Functions THEN [kind |-> "UndefinedFunction"]
    ELSE Functions[call.fn_name]

\* main is compiled and its first statement is a call with the argument x of
\* main as every argument
CallCompiled ==
    /\ pc = "done"
    /\ Len(program.main.body) >= 1
    /\ program.main.body[1].kind \in {"Assign", "Expr", "Return"}
    /\ CallOf(program.main.body[1]).kind = "FnCall"
    /\ \A k \in 1..Len(CallOf(program.main.body[1]).args) :
          CallOf(program.main.body[1]).args[k] = VarX

\* the callee binds as a parameter no name that a named constant has
BindsFreshNames(function) ==
    \A k \in 1..Len(function.sig.arguments) :
        function.sig.arguments[k].name \notin DOMAIN constants

\* the value the block of the callee returns: the value its last statement,
\* a Return of a variable, finds for that variable
BlockResult(function) ==
    LET ret == function.body[Len(function.body)]
        k == CHOOSE j \in 1..Len(trace) : trace[j].phase = "enter" /\ trace[j].what = ret
    IN  get_var(trace[k].env, ret.expr.name).var

\* the user-defined function was compiled in a fresh scope seeded with its
\* parameters and the call returned the result of its block
NativeCompiled(stmt, function) ==
    /\ err.kind = "ok"
    /\ Len(trace) >= 3
    /\ trace[2] = Event(function, "call", <<constants>>)
    /\ trace[3].phase = "enter"
    /\ trace[3].what = function.body[1]
    /\ DOMAIN trace[3].env[1]
          = DOMAIN constants
              \cup {function.sig.arguments[k].name : k \in 1..Len(function.sig.arguments)}
    /\ \A k \in 1..Len(function.sig.arguments) :
          trace[3].env[1][function.sig.arguments[k].name].var
              = get_var(trace[1].env, "x").var
    /\ trace[3].env[2] = EmptyMap
    /\ stmt.kind = "Assign"
          => \E j \in 1..Len(trace) :
                /\ trace[j] = Event(stmt, "exit", trace[j].env)
                /\ get_var(trace[j].env, stmt.lhs).var = BlockResult(function)
    /\ stmt.kind = "Return" => returned = Some(BlockResult(function))

\* the handler of the built-in ran: its gate is the last gate, and the call
\* returned what the handler returned, no value
BuiltInCalled(stmt) ==
    /\ err.kind = "ok"
    /\ Len(gates) >= 1
    /\ gates[Len(gates)].note = "constrain eq"
    /\ \E j \in 1..Len(trace) : trace[j] = Event(stmt, "exit", trace[j].env)

\* the outcome of the call that is the first statement of main
C21_Outcome(stmt, f) ==
    /\ ~panicked
    /\ f.kind = "Native" => NativeCompiled(stmt, f.function)
    /\ f.kind = "BuiltIn" => BuiltInCalled(stmt)
    /\ f.kind = "Main" => err.kind = "RecursiveMain"
    /\ f.kind = "UndefinedModule" => err.kind = "UndefinedModule"
    /\ f.kind = "UndefinedFunction" => err.kind = "UndefinedFunction"

\* C21: a call, free or module-qualified, that resolves to a user-defined
\* function compiles that function in a fresh scope seeded with its
\* parameter bindings and returns its block result; one that resolves to a
\* built-in returns the handler's result; one that resolves to main fails
\* with RecursiveMain; an unknown module fails with UndefinedModule and an
\* unknown free function with UndefinedFunction; none of these aborts the
\* process.  Stated for the calls whose callee binds no named constant.
C21_Calls ==
    CallCompiled
        => LET stmt == program.main.body[1]
               f == Resolved(CallOf(program.main.body[1]))
           IN  (f.kind = "Native" => BindsFreshNames(f.function))
                   => C21_Outcome(stmt, f)

(***************************************************************************)
(* C22                                                                     *)
(***************************************************************************)
\* the blocks of a list of statements: the list and the bodies of its loops
RECURSIVE BlocksIn(_, _)
BlocksIn(stmts, i) ==
    IF i > Len(stmts) THEN {}
    ELSE (IF stmts[i].kind = "ForLoop"
            THEN {stmts[i].body} \cup BlocksIn(stmts[i].body, 1) ELSE {})
           \cup BlocksIn(stmts, i + 1)

\* the blocks compile_block may be called on while the program is compiled
Blocks ==
    {program.main.body} \cup BlocksIn(program.main.body, 1)
        \cup { Functions[f].function.body :
                 f \in {g \in DOMAIN Functions : Functions[g].kind = "Native"} }

HasReturn(stmts) == \E i \in 1..Len(stmts) : stmts[i].kind = "Return"

\* the position of the first Return of a block that has one
FirstReturn(stmts) ==
    CHOOSE i \in 1..Len(stmts) :
        /\ stmts[i].kind = "Return"
        /\ \A j \in 1..(i - 1) : stmts[j].kind # "Return"

\* main without the statements that follow its first Return
Truncated(function) ==
    [function EXCEPT !.body = SubSeq(@, 1, FirstReturn(function.body))]

\* the positions of the history where statement i of main's block is entered
EntriesOfMain(i) ==
    { j \in 1..Len(trace') : trace'[j].phase = "enter"
                                /\ trace'[j].what = program.main.body[i] }

\* the statements 1 .. n of main's block were entered once each, in order
InOrder(n) ==
    /\ \A i \in 1..n : Cardinality(EntriesOfMain(i)) = 1
    /\ \A i \in 1..(n - 1) :
          \A j \in EntriesOfMain(i), k \in EntriesOfMain(i + 1) : j < k

\* no statement that follows the first Return of a block is ever entered
NothingAfterReturn ==
    \A b \in Blocks :
        HasReturn(b) =>
            \A i \in (FirstReturn(b) + 1)..Len(b) :
                \A j \in 1..Len(trace') :
                    ~(trace'[j].phase = "enter" /\ trace'[j].what = b[i])

\* the step left the writer, the FnEnv, the error and the returned value as r
EndsAs(r) ==
    /\ [Writer EXCEPT !.panic = FALSE]' = [r.s.w EXCEPT !.panic = FALSE]
    /\ panicked' = r.s.w.panic
    /\ fn_env' = r.s.env
    /\ err' = r.s.err
    /\ returned' = r.res

\* the value of the returned expression of main's first Return, resolved
\* in the FnEnv the statement was left with
ResolvedReturn(stmt) ==
    LET j == CHOOSE k \in 1..Len(trace') :
                 trace'[k].phase = "exit" /\ trace'[k].what = stmt
    IN  get_var(trace'[j].env, stmt.expr.name).var

\* the FnEnv the last statement of main's block was left with
LeftWith ==
    IF program.main.body = <<>> THEN nest(fn_env) ELSE trace'[Len(trace')].env

C22_Step ==
    (BlockCompiled /\ err'.kind = "ok") =>
        LET body == program.main.body
        IN  /\ NothingAfterReturn
            /\ body # <<>> => trace'[1] = Event(body[1], "enter", nest(fn_env))
            /\ HasReturn(body) =>
                  /\ InOrder(FirstReturn(body))
                  /\ returned' # None
                  /\ body[FirstReturn(body)].expr.kind = "Variable"
                        => returned'[1] = ResolvedReturn(body[FirstReturn(body)])
                  /\ EndsAs(compile_main_function(
                                CompilerState(Writer, fn_env, checked),
                                Truncated(program.main)))
            /\ ~HasReturn(body) =>
                  /\ InOrder(Len(body))
                  /\ returned' = None
                  /\ fn_env' = pop(LeftWith)

LoopWithReturn ==
    /\ pc = "done"
    /\ Len(program.main.body) = 2
    /\ program.main.body[1].kind = "ForLoop"
    /\ HasReturn(program.main.body[1].body)

\* C23: a ForLoop statement never yields a value to its enclosing block: a
\* Return in the loop body ends only that iteration's block, the loop
\* discards its value, the remaining iterations are still compiled, the
\* statements that follow the loop are still executed, and the loop
\* compiles without error for any trip count.
C23_LoopReturn ==
    LoopWithReturn =>
        LET loop == program.main.body[1]
        IN  /\ ~panicked
            /\ err = NoErr
            /\ returned = None
            /\ Len(Entries(loop.body[1])) = TripCount(loop)
            /\ Len(Exits(loop.body[FirstReturn(loop.body)])) = TripCount(loop)
            /\ Len(Exits(loop)) = 1
            /\ Len(Entries(program.main.body[2])) = 1

(***************************************************************************)
(* C24                                                                     *)
(***************************************************************************)
\* the wires of a list of operands
CellsAmong(operands) == { c.v : c \in {o \in operands : o.tag = "Cell"} }

\* the wires the Value of a wire refers to
Refs(value) ==
    IF value.tag = "Hint" THEN CellsAmong({value.lhs, value.rhs})
    ELSE IF value.tag = "Mul" THEN {value.lhs, value.rhs}
    ELSE IF value.tag = "PublicOutput" /\ value.wire # None THEN {value.wire[1]}
    ELSE {}

\* C24 as stated: in every reachable state, after main's return value has
\* been substituted into the public-output wires included, the Value bound
\* to wire i refers only to wires of index strictly smaller than i.
C24_EarlierWires ==
    \A i \in DOMAIN witness_vars : \A r \in Refs(witness_vars[i]) : r < i

\* C24, amended: the Value of a wire that is not a public output refers
\* only to wires of strictly smaller index; a public-output wire refers,
\* once main's return value is substituted, to an allocated wire that is not
\* a public output, of smaller or larger index.  No wire reaches itself.
C24_Acyclic ==
    \A i \in DOMAIN witness_vars :
        IF witness_vars[i].tag = "PublicOutput"
        THEN \A r \in Refs(witness_vars[i]) :
                /\ r \in DOMAIN witness_vars
                /\ witness_vars[r].tag # "PublicOutput"
        ELSE \A r \in Refs(witness_vars[i]) : r < i

\* `return x + x;` compiled: the output wire 1 refers to wire 2, the sum
C24_Witness ==
    /\ pc = "done" /\ ~panicked /\ err.kind = "ok"
    /\ public_output = Some(<<Cell(1)>>)
    /\ witness_vars[1] = ValuePublicOutput(Some(2))
    /\ witness_vars[2].tag = "Hint"
    /\ Refs(witness_vars[2]) = {0}

(***************************************************************************)
(* C25                                                                     *)
(***************************************************************************)
\* the names of the declared fields of a struct
FieldNames(struct_name) ==
    { Structs[struct_name][k].name : k \in 1..Len(Structs[struct_name]) }

\* a `let` whose right side reads a field the receiver's struct does not
\* declare
ReadsUnknownField(stmt) ==
    /\ stmt.kind = "Assign"
    /\ stmt.rhs.kind = "FieldAccess"
    /\ stmt.rhs.lhs.typ # None
    /\ stmt.rhs.lhs.typ[1].k = "Custom"
    /\ stmt.rhs.lhs.typ[1].name \in DOMAIN Structs
    /\ stmt.rhs.rhs \notin FieldNames(stmt.rhs.lhs.typ[1].name)

\* C25: a field access whose field name is not among the declared fields of
\* the receiver's struct is reported as an error; it never yields a value,
\* in particular never a zero-length sub-range positioned after the last
\* field.
C25_UnknownField ==
    \A j \in 1..Len(trace) :
        (trace[j].phase = "enter" /\ ReadsUnknownField(trace[j].what))
            => /\ pc = "done" => (panicked \/ err.kind # "ok")
               /\ \A k \in (j + 1)..Len(trace) :
                     ~(trace[k].phase = "exit" /\ trace[k].what = trace[j].what)

(***************************************************************************)
(* C26                                                                     *)
(***************************************************************************)
\* the scope stack after the block of main is the scope stack before it
C26_Step == BlockCompiled => fn_env' = fn_env

\* C26: compile_block is scope-balanced on every exit path: when it
\* returns, with a value or without one, the scope stack has the same depth
\* and the same frames as when it was entered.
C26_ScopeBalanced == [][C26_Step]_vars

(***************************************************************************)
(* C27                                                                     *)
(***************************************************************************)
\* the wires of the public output
OutputWires ==
    IF public_output = None THEN {}
    ELSE { public_output[1][k].v : k \in 1..Len(public_output[1]) }

\* the writer after the step, but for the Values of the public-output
\* wires, is the writer w
OnlyOutputsChanged(w) ==
    /\ [Writer EXCEPT !.witness_vars = <<>>]' = [w EXCEPT !.witness_vars = <<>>]
    /\ DOMAIN witness_vars' = DOMAIN w.witness_vars
    /\ \A v \in DOMAIN w.witness_vars \ OutputWires :
          witness_vars'[v] = w.witness_vars[v]

\* the step that compiles main, its block compiled to r
C27_After(r) ==
    /\ err'.kind = "ConstantInOutput"
          => /\ Writer' = r.s.w
             /\ \A v \in OutputWires : witness_vars'[v] = ValuePublicOutput(None)
    /\ (err'.kind = "ok" /\ ~panicked') => OnlyOutputsChanged(r.s.w)

C27_Step ==
    (pc = "main" /\ pc' = "done")
        => C27_After(compile_block(CompilerState(Writer, fn_env, checked),
                                   program.main.body))

\* C27: binding main's output is all-or-nothing.  When compile_main_function
\* fails with ConstantInOutput, the Value of no public-output wire has been
\* changed, all are still PublicOutput(None), also when a wire comes before
\* the constant in the returned Var; when it succeeds, it changes only the
\* Values of public-output wires: the Values of the other wires, the gates
\* and the wiring are those the block left.
C27_OutputBinding == [][C27_Step]_vars

\* [x, 1] was returned: ConstantInOutput, with both outputs unbound
C27_Witness ==
    /\ pc = "done"
    /\ err.kind = "ConstantInOutput"
    /\ returned = Some(<<Cell(0), Const(1)>>)
    /\ OutputWires = {1, 2}
    /\ \A v \in OutputWires : witness_vars[v] = ValuePublicOutput(None)

(***************************************************************************)
(* C28                                                                     *)
(***************************************************************************)
\* the rows of the gate list that add_public_inputs and add_public_outputs
\* emitted
PublicRows ==
    { r \in 1..Len(gates) : gates[r].note \in {"add public input", "add public output"} }

\* the public rows were emitted before every other row
PublicRowsFirst == \A r \in PublicRows : \A q \in 1..(r - 1) : q \in PublicRows

\* row r is the pass-through gate of one public wire, held in column 0
PassThrough(r) ==
    /\ gates[r].typ = "DoubleGeneric"
    /\ gates[r].coeffs[1] = FieldOne
    /\ \A c \in 2..Len(gates[r].coeffs) : gates[r].coeffs[c] = FieldZero
    /\ Len(rows_of_vars[r]) >= 1
    /\ rows_of_vars[r][1] # None
    /\ \A c \in 2..Len(rows_of_vars[r]) : rows_of_vars[r][c] = None
    /\ rows_of_vars[r][1][1] \in DOMAIN witness_vars
    /\ witness_vars[rows_of_vars[r][1][1]].tag \in {"External", "PublicOutput"}

\* C28: in every reachable state public_input_size is the number of rows
\* emitted so far by add_public_inputs and add_public_outputs, one row per
\* public input or output wire; when those rows come before every other
\* row, the rows 0 .. public_input_size - 1 are the pass-through gates of
\* the public wires, in allocation order, each with its wire in column 0.
C28_PublicRows ==
    /\ public_input_size = Cardinality(PublicRows)
    /\ \A r \in PublicRows : PassThrough(r)
    /\ \A r, q \in PublicRows :
          r < q => rows_of_vars[r][1][1] < rows_of_vars[q][1][1]
    /\ PublicRowsFirst => PublicRows = 1..public_input_size

\* a public input and a public output declared: rows 0 and 1 hold wires 0
\* and 1 and public_input_size is 2
C28_Witness ==
    /\ public_input_size = 2
    /\ Len(gates) = 2
    /\ gates[1].note = "add public input"
    /\ gates[2].note = "add public output"
    /\ rows_of_vars[1][1] = Some(0)
    /\ rows_of_vars[2][1] = Some(1)

(***************************************************************************)
(* C29                                                                     *)
(***************************************************************************)
\* the statement entered at event k indexes an array of declared length 0
\* with a constant
IndexesEmptyArray(k) ==
    /\ IndexesArray(k)
    /\ trace[k].what.rhs.array.typ[1].len = 0
    /\ IndexConstant(trace[k].env, trace[k].what.rhs.idx) # None

\* C29: indexing an array of declared length 0 with any constant index
\* fails with the error value ArrayIndexOutOfBounds; the reported bound,
\* the declared length minus 1, is computed without wrapping around the
\* unsigned machine integer and the process is not aborted.
C29_EmptyArrayIndex ==
    \A k \in 1..Len(trace) :
        IndexesEmptyArray(k)
            => /\ ~panicked
               /\ err.kind = "ArrayIndexOutOfBounds"
               /\ err.a = IndexConstant(trace[k].env, trace[k].what.rhs.idx)[1]
               /\ err.b # UsizeMax

====
